---- MODULE Spec2Model ----
(***************************************************************************)
(* Authentication and session subsystem of the Protime MCP server          *)
(* (src/src/index.ts, src/src/middleware/auth.ts).                         *)
(*                                                                         *)
(* The HTTP handlers are async functions running on one event loop: the    *)
(* code between two awaits runs atomically, and every awaited store call   *)
(* takes effect at one point between its call and its continuation.  Each  *)
(* action below is one such segment: the effect of an awaited call         *)
(* together with the continuation that runs up to the next await (or up    *)
(* to the response).  The synchronous start of a handler belongs to the    *)
(* segment of its first awaited call: a request counts as arrived when     *)
(* that call takes effect.                                                 *)
(*                                                                         *)
(* Time is counted in units of five minutes.                               *)
(***************************************************************************)
EXTENDS Integers, Sequences, FiniteSets, TLC

(* ------------------------------ bounds -------------------------------- *)
\* request slots of the OAuth endpoints that may be in flight together
NumReq == 2
\* refresh token documents the store may hold
MaxTokens == 3
\* last instant of the clock
MaxTime == 4
\* session identifiers randomUUID may hand out
MaxSessions == 2
\* POST /mcp requests that may be in flight together
NumMcp == 2
\* entries GET /auth/login may store
MaxLogins == 2
\* the clock of the cleanup runs from 0 to MaxAge
MaxAge == 6
\* GET /auth/callback requests that may be in flight together
NumCb == 2
\* briefing documents the store may hold
MaxBriefingDocs == 3
\* briefing tool calls that may be in flight together
NumCalls == 2

(* ------------------------- program constants --------------------------- *)
\* 10 * 60 * 1000 ms
CodeTTL == 2
\* 30 * 24 * 60 * 60 * 1000 ms
RefreshTTL == 8640
\* 15 * 60 * 1000 ms: the age at which the cleanup drops a pending request
PendingTTL == 3
\* 15 * 60 * 1000 ms: the period of the cleanup interval
SweepPeriod == 3

None == "none"
DefaultScope == "briefings:read briefings:write"

Slots == 1..NumReq
TokenIds == 1..MaxTokens
NoToken == 0
CodeIds == {"c1", "c2"}
Verifiers == {"v1", "v2", "w1"}
RedirectUris == {"uriA", "uriB"}
UserIds == {"u1", "u2"}

VARIABLES
    now,                 \* Date.now(), in units of five minutes
    users,               \* collections.users: ids of the stored user documents
    oauthCodes,          \* firestore collection oauthCodes: code -> document
    oauthRefreshTokens,  \* firestore collection oauthRefreshTokens: token -> document
    req,                 \* in-flight requests of /auth/token and /auth/logout
    out,                 \* the response the last step sent, if it sent one
    lastLogout,          \* history: the logout that began last
    sessions,            \* the sessions Map of the streamable HTTP transport
    nextSid,             \* the number of session identifiers handed out
    mcp,                 \* in-flight requests of /mcp
    pendingAuthRequests, \* the pendingAuthRequests Map: state -> entry
    cb,                  \* in-flight requests of /auth/callback
    nextPid,             \* history: the number of entries /auth/login stored
    minted,              \* history: code -> the entry and instant it was minted from
    lastSweep,           \* the instant the cleanup interval fired last
    userBriefings,       \* users/{id}/briefings: document id -> document
    toolCalls,           \* the briefing tool calls in flight
    proc                 \* the process: its mode, listener and shutdown

vars == <<now, users, oauthCodes, oauthRefreshTokens, req, out, lastLogout,
          sessions, nextSid, mcp,
          pendingAuthRequests, cb, nextPid, minted, lastSweep,
          userBriefings, toolCalls, proc>>
toolVars == <<userBriefings, toolCalls>>
loginVars == <<pendingAuthRequests, cb, nextPid, minted, lastSweep>>
authVars == <<oauthCodes, oauthRefreshTokens, req, lastLogout>>
mcpVars == <<sessions, nextSid, mcp>>

(* ------------------------------ helpers -------------------------------- *)
\* createHash('sha256').update(v).digest('base64url'): a digest is never its
\* own preimage and distinct verifiers have distinct digests
S256(v) == "S256(" \o v \o ")"

\* a variant of the expiry test that never finds a document expired
ExpiredNever(expiresAt, t) == FALSE

\* a Date compared with new Date(): the document is expired when its
\* expiry lies strictly before the present
Expired(expiresAt, t) == expiresAt < t

(* --------------------------- credentials ------------------------------- *)
\* jwt.sign(payload, JWT_SECRET, {expiresIn: '7d'}), in units of five minutes
JwtTTL == 2016

\* createJWT(userId): a token signed with the server's secret
createJWT(userId, t) ==
    [kind |-> "jwt", sub |-> userId, exp |-> t + JwtTTL, sig |-> "server"]
\* an ID token of the federated identity provider
FirebaseToken(uid, exp) ==
    [kind |-> "firebase", sub |-> uid, exp |-> exp, sig |-> "provider"]
\* a string that is no token of either kind
Garbage == [kind |-> "opaque", sub |-> None, exp |-> 0, sig |-> None]

NoHeader == [scheme |-> None, token |-> Garbage]
Bearer(tok) == [scheme |-> "Bearer", token |-> tok]
Basic == [scheme |-> "Basic", token |-> Garbage]

\* jwt.verify(token, JWT_SECRET): signature and expiry
JwtVerify(tok, t) == tok.kind = "jwt" /\ tok.sig = "server" /\ t < tok.exp
\* auth.verifyIdToken(token)
FirebaseVerify(tok, t) == tok.kind = "firebase" /\ tok.sig = "provider" /\ t < tok.exp

AuthFail(us, msg) == [ok |-> FALSE, user |-> None, users |-> us, message |-> msg]
AuthOk(us, u) == [ok |-> TRUE, user |-> u, users |-> us, message |-> None]

\* the federated path of both verifiers: resolve the user, creating the
\* document on first sight
FirebasePath(tok, us, t) ==
    IF FirebaseVerify(tok, t)
    THEN AuthOk(us \cup {tok.sub}, tok.sub)
    ELSE AuthFail(us, "Invalid authentication token")

\* a variant of authenticateToken that trusts the signature of an access
\* token without looking its user up
authenticateTokenNoLookup(tok, us, t) ==
    IF JwtVerify(tok, t) THEN AuthOk(us, tok.sub) ELSE FirebasePath(tok, us, t)

\* authenticateToken(token): the 'User not found' error is thrown inside the
\* try block of the JWT path and caught by its own catch
authenticateToken(tok, us, t) ==
    IF JwtVerify(tok, t) /\ tok.sub \in us
    THEN AuthOk(us, tok.sub)
    ELSE FirebasePath(tok, us, t)

\* the header test shared by requireAuth and POST /mcp
HasBearer(h) == h.scheme = "Bearer"

\* a variant of requireAuth that lets the 'User not found' error of the JWT
\* path reach the caller
requireAuthUserNotFound(h, us, t) ==
    IF ~HasBearer(h)
    THEN AuthFail(us, "No authentication token provided")
    ELSE IF JwtVerify(h.token, t)
    THEN IF h.token.sub \in us THEN AuthOk(us, h.token.sub)
         ELSE AuthFail(us, "User not found")
    ELSE FirebasePath(h.token, us, t)

\* requireAuth(req, res, next)
requireAuth(h, us, t) ==
    IF ~HasBearer(h)
    THEN AuthFail(us, "No authentication token provided")
    ELSE IF JwtVerify(h.token, t) /\ h.token.sub \in us
    THEN AuthOk(us, h.token.sub)
    ELSE FirebasePath(h.token, us, t)

(* ------------------------- /auth/token checks -------------------------- *)
\* if (!code || !code_verifier)
MissingCodeParams(code, verifier) == code = None \/ verifier = None
\* if (codeData.used)
CodeUsed(doc) == doc.used
\* a variant of the redirect test that never finds a mismatch
RedirectMismatchNever(redirect_uri, doc) == FALSE

\* if (redirect_uri && redirect_uri !== codeData.redirectUri)
RedirectMismatch(redirect_uri, doc) ==
    redirect_uri # None /\ redirect_uri # doc.redirectUri
\* a variant of the PKCE test that never finds a mismatch
PkceMismatchNever(verifier, doc) == FALSE

\* computedChallenge !== codeData.codeChallenge
PkceMismatch(verifier, doc) == S256(verifier) # doc.codeChallenge

\* the length of the prefix two strings share, counted from position n
RECURSIVE CommonPrefix(_, _, _)
CommonPrefix(a, b, n) ==
    IF n < Len(a) /\ n < Len(b) /\ SubSeq(a, n + 1, n + 1) = SubSeq(b, n + 1, n + 1)
    THEN CommonPrefix(a, b, n + 1)
    ELSE n

\* the character positions a !== b examines: strings of different lengths
\* differ without a look at their characters, strings of one length are
\* compared position by position up to the first difference
NotEqualCost(a, b) ==
    IF Len(a) # Len(b) THEN 0
    ELSE IF a = b THEN Len(a)
    ELSE CommonPrefix(a, b, 0) + 1

\* the positions examined on the PKCE failure path
PkceCost(verifier, doc) == NotEqualCost(S256(verifier), doc.codeChallenge)

\* the checks of the authorization_code grant on the document read, in the
\* order of the code: the description of the first failing check, or "ok"
\* a variant of the checks that compares redirect_uri and verifier before
\* it looks at used and expiresAt
CodeGrantErrorMismatchFirst(codes, code, verifier, redirect_uri, t) ==
    IF code \notin DOMAIN codes THEN "Invalid authorization code"
    ELSE IF RedirectMismatch(redirect_uri, codes[code]) THEN "Redirect URI mismatch"
    ELSE IF PkceMismatch(verifier, codes[code]) THEN "PKCE code_verifier validation failed"
    ELSE IF CodeUsed(codes[code]) THEN "Authorization code has already been used"
    ELSE IF Expired(codes[code].expiresAt, t) THEN "Authorization code has expired"
    ELSE "ok"

CodeGrantError(codes, code, verifier, redirect_uri, t) ==
    IF code \notin DOMAIN codes THEN "Invalid authorization code"
    ELSE IF CodeUsed(codes[code]) THEN "Authorization code has already been used"
    ELSE IF Expired(codes[code].expiresAt, t) THEN "Authorization code has expired"
    ELSE IF RedirectMismatch(redirect_uri, codes[code]) THEN "Redirect URI mismatch"
    ELSE IF PkceMismatch(verifier, codes[code]) THEN "PKCE code_verifier validation failed"
    ELSE "ok"

\* a variant of the update that leaves the code as it was
MarkUsedSkipped(codes, code) == codes

\* oauthCodes.doc(code).update({ used: true, usedAt })
MarkUsed(codes, code) == [codes EXCEPT ![code].used = TRUE]

\* if (tokenData.revoked)
TokenRevoked(doc) == doc.revoked

\* the checks of the refresh_token grant on the document read
\* a variant of the checks without the comparison of expiresAt
RefreshGrantErrorNoExpiry(tokens, tok, t) ==
    IF tok \notin DOMAIN tokens THEN "Invalid refresh token"
    ELSE IF TokenRevoked(tokens[tok]) THEN "Refresh token has been revoked"
    ELSE "ok"

RefreshGrantError(tokens, tok, t) ==
    IF tok \notin DOMAIN tokens THEN "Invalid refresh token"
    ELSE IF TokenRevoked(tokens[tok]) THEN "Refresh token has been revoked"
    ELSE IF Expired(tokens[tok].expiresAt, t) THEN "Refresh token has expired"
    ELSE "ok"

\* a variant of the update that leaves the presented token as it was
RevokeSkipped(tokens, tok) == tokens

\* oauthRefreshTokens.doc(refresh_token).update({ revoked: true, revokedAt })
Revoke(tokens, tok) == [tokens EXCEPT ![tok].revoked = TRUE]

\* a variant of the document below that never records the presented token
RefreshDocUnlinked(data, t, prev) ==
    [userId |-> data.userId, scope |-> data.scope, clientId |-> data.clientId,
     expiresAt |-> t + RefreshTTL, revoked |-> FALSE, previousToken |-> NoToken]

\* the document written for a new refresh token; previousToken is present
\* only in the document written by the refresh_token grant
RefreshDoc(data, t, prev) ==
    [userId |-> data.userId, scope |-> data.scope, clientId |-> data.clientId,
     expiresAt |-> t + RefreshTTL, revoked |-> FALSE, previousToken |-> prev]

\* randomUUID(): an identifier no document has
FreshToken(tokens) == CHOOSE t \in TokenIds \ DOMAIN tokens :
    \A u \in TokenIds \ DOMAIN tokens : t <= u

\* a variant of the write that stores a rotated token under the identifier
\* of the token it replaces
SetTokenOnPrevious(tokens, id, doc) ==
    IF doc.previousToken # NoToken THEN (doc.previousToken :> doc) @@ tokens
    ELSE (id :> doc) @@ tokens

\* oauthRefreshTokens.doc(id).set(doc)
SetToken(tokens, id, doc) == (id :> doc) @@ tokens

(* ------------------------- /auth/logout pieces ------------------------- *)
\* a variant of the query without the userId filter
ActiveTokensAnyUser(tokens, userId) ==
    {t \in DOMAIN tokens : ~tokens[t].revoked}

\* .where('userId', '==', userId).where('revoked', '==', false).get()
ActiveTokens(tokens, userId) ==
    {t \in DOMAIN tokens : tokens[t].userId = userId /\ ~tokens[t].revoked}
\* a variant of the batch that is never committed
BatchRevokeSkipped(tokens, docs) == tokens

\* a variant of the batch that deletes the documents
BatchRevokeDeleting(tokens, docs) ==
    [t \in DOMAIN tokens \ docs |-> tokens[t]]

\* batch.update(doc.ref, { revoked: true, revokedAt }) for each; batch.commit()
BatchRevoke(tokens, docs) ==
    [t \in DOMAIN tokens |->
        IF t \in docs THEN [tokens[t] EXCEPT !.revoked = TRUE] ELSE tokens[t]]

(* ----------------------- requests and responses ------------------------ *)
NoData == [userId |-> None, scope |-> None, clientId |-> None]

\* A request slot: the request's parameters and the handler's position (pc)
\* and locals.  The fields alone, wasUsed, wasExpired, wasRotated, afterLogout
\* and pre are history: what held when the request arrived.
IdleReq ==
    [pc |-> "idle", grant |-> None, code |-> None, code_verifier |-> None,
     redirect_uri |-> None, refresh_token |-> NoToken, header |-> NoHeader,
     user |-> None, data |-> NoData, issuedAt |-> 0, snap |-> {},
     alone |-> TRUE, wasUsed |-> FALSE, wasExpired |-> FALSE,
     wasRotated |-> FALSE, afterLogout |-> FALSE, pre |-> {}]

\* no response.  compared is history: the character positions the PKCE
\* comparison examined before the response was sent
NoResp ==
    [endpoint |-> None, status |-> 0, error |-> None, desc |-> None,
     access_token |-> Garbage, refresh_token |-> NoToken, scope |-> None,
     revoked_tokens |-> 0, sessionId |-> 0, code |-> None, location |-> None,
     fields |-> {}, compared |-> 0, req |-> IdleReq]

NoLogout == [slot |-> 0, user |-> None, pre |-> {}, done |-> FALSE, alone |-> FALSE]

InFlight(r) == req[r].pc # "idle"
Quiet == \A r \in Slots : ~InFlight(r)

\* a new request takes the first free slot
FirstFree(r) == ~InFlight(r) /\ \A x \in Slots : x < r => InFlight(x)

\* the slots after request q arrived in slot r: a logout that shares any part
\* of its life with another request is not alone
Arrived(r, q) ==
    [x \in Slots |->
        IF x = r THEN [q EXCEPT !.alone = Quiet]
        ELSE IF req[x].grant = "logout" THEN [req[x] EXCEPT !.alone = FALSE]
        ELSE req[x]]

\* res.status(status).json({ error, error_description })
ErrorResp(endpoint, q, status, error, desc) ==
    [NoResp EXCEPT !.endpoint = endpoint, !.status = status, !.error = error,
                   !.desc = desc, !.fields = {"error", "error_description"},
                   !.req = q]

\* res.status(statusCode).json({ success: false, error: { message, code } }),
\* the body of requireAuth's catch and of the error handling middleware
EnvelopeResp(endpoint, q, status, code, message) ==
    [NoResp EXCEPT !.endpoint = endpoint, !.status = status, !.error = code,
                   !.desc = message, !.fields = {"success", "error"}, !.req = q]

\* the error handling middleware answers an error that is no AppError, with
\* the message it substitutes in production
InternalError(endpoint, q) ==
    EnvelopeResp(endpoint, q, 500, "INTERNAL_ERROR", "Internal server error")

\* res.json({ access_token, token_type, expires_in, refresh_token, scope })
TokenResp(q, id) ==
    [NoResp EXCEPT !.endpoint = "token", !.status = 200,
                   !.access_token = createJWT(q.data.userId, q.issuedAt),
                   !.refresh_token = id, !.scope = q.data.scope,
                   !.fields = {"access_token", "token_type", "expires_in",
                               "refresh_token", "scope"},
                   !.req = q]

\* the store has room for the document a request is about to create
Room == Cardinality(DOMAIN oauthRefreshTokens)
            + Cardinality({r \in Slots : req[r].pc \in {"set_issued", "set_rotated"}})
        < MaxTokens

(* -------------------- POST /auth/token, authorization_code ------------- *)
\* the request of the client the code in the store was minted for
ValidExchange == [code |-> "c1", code_verifier |-> "v1", redirect_uri |-> "uriA"]

\* the requests tried: the valid one, and those that differ from it in one
\* parameter (another value, or none)
ExchangeInputs ==
    {i \in [code : CodeIds \cup {None}, code_verifier : Verifiers \cup {None},
            redirect_uri : RedirectUris \cup {None}] :
        Cardinality({f \in {"code", "code_verifier", "redirect_uri"} :
                        i[f] # ValidExchange[f]}) <= 1}

\* the parameter check; oauthCodes.doc(code).get() is answered and the
\* document is checked
ExchangeArrive(r) ==
    /\ FirstFree(r)
    /\ \E i \in ExchangeInputs :
        LET code == i.code
            verifier == i.code_verifier
            redirect_uri == i.redirect_uri
            q == [IdleReq EXCEPT
                    !.grant = "authorization_code", !.code = code,
                    !.code_verifier = verifier, !.redirect_uri = redirect_uri,
                    !.wasUsed = code \in DOMAIN oauthCodes /\ oauthCodes[code].used,
                    !.wasExpired = code \in DOMAIN oauthCodes
                                     /\ oauthCodes[code].expiresAt < now]
            e == CodeGrantError(oauthCodes, code, verifier, redirect_uri, now)
        IN IF MissingCodeParams(code, verifier)
           THEN /\ out' = ErrorResp("token", q, 400, "invalid_request",
                            "Missing required parameters: code, code_verifier")
                /\ UNCHANGED req
           ELSE IF e # "ok"
           THEN /\ out' = [ErrorResp("token", q, 400, "invalid_grant", e) EXCEPT
                               !.compared =
                                  IF e = "PKCE code_verifier validation failed"
                                  THEN PkceCost(verifier, oauthCodes[code])
                                  ELSE 0]
                /\ UNCHANGED req
           ELSE /\ req' = Arrived(r, [q EXCEPT
                            !.pc = "update_code",
                            !.data = [userId |-> oauthCodes[code].userId,
                                      scope |-> oauthCodes[code].scope,
                                      clientId |-> oauthCodes[code].clientId]])
                /\ out' = NoResp
    /\ UNCHANGED <<now, users, oauthCodes, oauthRefreshTokens, lastLogout>>
    /\ UNCHANGED <<mcpVars, loginVars, proc, toolVars>>

\* the code is marked used; the tokens are generated
ExchangeUpdate(r) ==
    /\ req[r].pc = "update_code"
    /\ Room
    /\ oauthCodes' = MarkUsed(oauthCodes, req[r].code)
    /\ req' = [req EXCEPT ![r].pc = "set_issued", ![r].issuedAt = now]
    /\ out' = NoResp
    /\ UNCHANGED <<now, users, oauthRefreshTokens, lastLogout>>
    /\ UNCHANGED <<mcpVars, loginVars, proc, toolVars>>

\* the refresh token is stored and the tokens are returned
ExchangeSet(r) ==
    /\ req[r].pc = "set_issued"
    /\ LET q == req[r]
           id == FreshToken(oauthRefreshTokens)
       IN /\ oauthRefreshTokens' = SetToken(oauthRefreshTokens, id,
                 RefreshDoc(q.data, q.issuedAt, NoToken))
          /\ out' = TokenResp(q, id)
    /\ req' = [req EXCEPT ![r] = IdleReq]
    /\ UNCHANGED <<now, users, oauthCodes, lastLogout>>
    /\ UNCHANGED <<mcpVars, loginVars, proc, toolVars>>

(* ----------------------- POST /auth/token, refresh_token --------------- *)
\* the presented token has been the input of a refresh that returned
Rotated(tokens, tok) ==
    tok # NoToken /\ \E t \in DOMAIN tokens : tokens[t].previousToken = tok

\* a logout has returned, having shared no part of its life with another
\* request, and the token was a token of its principal when it began
LoggedOut(tok) == lastLogout.done /\ lastLogout.alone /\ tok \in lastLogout.pre

\* the parameter check; oauthRefreshTokens.doc(refresh_token).get() is
\* answered and the document is checked
RefreshArrive(r) ==
    /\ FirstFree(r)
    /\ \E tok \in TokenIds \cup {NoToken} :
        LET q == [IdleReq EXCEPT
                    !.grant = "refresh_token", !.refresh_token = tok,
                    !.wasRotated = Rotated(oauthRefreshTokens, tok),
                    !.afterLogout = LoggedOut(tok)]
            e == RefreshGrantError(oauthRefreshTokens, tok, now)
        IN IF tok = NoToken
           THEN /\ out' = ErrorResp("token", q, 400, "invalid_request",
                            "Missing required parameter: refresh_token")
                /\ UNCHANGED req
           ELSE IF e # "ok"
           THEN /\ out' = ErrorResp("token", q, 400, "invalid_grant", e)
                /\ UNCHANGED req
           ELSE /\ req' = Arrived(r, [q EXCEPT
                            !.pc = "update_token",
                            !.data = [userId |-> oauthRefreshTokens[tok].userId,
                                      scope |-> oauthRefreshTokens[tok].scope,
                                      clientId |-> oauthRefreshTokens[tok].clientId]])
                /\ out' = NoResp
    /\ UNCHANGED <<now, users, oauthCodes, oauthRefreshTokens, lastLogout>>
    /\ UNCHANGED <<mcpVars, loginVars, proc, toolVars>>

\* the presented token is revoked; the new tokens are generated
RefreshUpdate(r) ==
    /\ req[r].pc = "update_token"
    /\ Room
    /\ oauthRefreshTokens' = Revoke(oauthRefreshTokens, req[r].refresh_token)
    /\ req' = [req EXCEPT ![r].pc = "set_rotated", ![r].issuedAt = now]
    /\ out' = NoResp
    /\ UNCHANGED <<now, users, oauthCodes, lastLogout>>
    /\ UNCHANGED <<mcpVars, loginVars, proc, toolVars>>

\* the rotated token is stored and the tokens are returned
RefreshSet(r) ==
    /\ req[r].pc = "set_rotated"
    /\ LET q == req[r]
           id == FreshToken(oauthRefreshTokens)
       IN /\ oauthRefreshTokens' = SetToken(oauthRefreshTokens, id,
                 RefreshDoc(q.data, q.issuedAt, q.refresh_token))
          /\ out' = TokenResp(q, id)
    /\ req' = [req EXCEPT ![r] = IdleReq]
    /\ UNCHANGED <<now, users, oauthCodes, lastLogout>>
    /\ UNCHANGED <<mcpVars, loginVars, proc, toolVars>>

\* any other grant_type
UnsupportedGrant(r) ==
    /\ FirstFree(r)
    /\ out' = ErrorResp("token", [IdleReq EXCEPT !.grant = "password"],
                    400, "unsupported_grant_type", "Grant type is not supported")
    /\ UNCHANGED <<now, users, oauthCodes, oauthRefreshTokens, req, lastLogout>>
    /\ UNCHANGED <<mcpVars, loginVars, proc, toolVars>>

\* a variant of the failure below in which the handler undoes its first
\* write when the second one fails
TokenFailRollback(r) ==
    /\ req[r].pc \in {"update_code", "set_issued", "update_token", "set_rotated"}
    /\ out' = InternalError("token", req[r])
    /\ oauthCodes' = IF req[r].pc = "set_issued"
                     THEN [oauthCodes EXCEPT ![req[r].code].used = FALSE]
                     ELSE oauthCodes
    /\ oauthRefreshTokens' =
            IF req[r].pc = "set_rotated"
            THEN [oauthRefreshTokens EXCEPT ![req[r].refresh_token].revoked = FALSE]
            ELSE oauthRefreshTokens
    /\ req' = [req EXCEPT ![r] = IdleReq]
    /\ UNCHANGED <<now, users, lastLogout>>
    /\ UNCHANGED <<mcpVars, loginVars, proc, toolVars>>

\* an awaited store call of the /auth/token handler in slot r rejects: the
\* call has no effect, the catch passes the error to next and the error
\* handling middleware answers
TokenFail(r) ==
    /\ req[r].pc \in {"update_code", "set_issued", "update_token", "set_rotated"}
    /\ out' = InternalError("token", req[r])
    /\ req' = [req EXCEPT ![r] = IdleReq]
    /\ UNCHANGED <<now, users, oauthCodes, oauthRefreshTokens, lastLogout>>
    /\ UNCHANGED <<mcpVars, loginVars, proc, toolVars>>

(* --------------------------- POST /auth/logout ------------------------- *)
\* the headers a logout request may carry: none, a string that is no token,
\* the access tokens of the stored users, an access token whose user
\* document is gone, an access token that has expired, and an ID token that
\* has expired
LogoutHeaders ==
    {NoHeader, Bearer(Garbage), Bearer(createJWT("u3", 0)),
     Bearer(createJWT("u1", 0 - JwtTTL - 1)), Bearer(FirebaseToken("u1", 0))}
        \cup {Bearer(createJWT(u, 0)) : u \in UserIds}

\* the refresh tokens of a user, revoked or not
TokensOf(tokens, userId) == {t \in DOMAIN tokens : tokens[t].userId = userId}

\* requireAuth runs; when it passes, the handler calls the query
LogoutArrive(r) ==
    /\ FirstFree(r)
    /\ \E h \in LogoutHeaders :
        LET a == requireAuth(h, users, now)
            q == [IdleReq EXCEPT !.grant = "logout", !.header = h, !.user = a.user,
                                 !.pre = TokensOf(oauthRefreshTokens, a.user)]
        IN /\ users' = a.users
           /\ IF ~a.ok
              THEN /\ out' = EnvelopeResp("logout", q, 401, "AUTH_ERROR", a.message)
                   /\ UNCHANGED <<req, lastLogout>>
              ELSE /\ req' = Arrived(r, [q EXCEPT !.pc = "query"])
                   /\ lastLogout' = [slot |-> r, user |-> a.user, pre |-> q.pre,
                                     done |-> FALSE, alone |-> FALSE]
                   /\ out' = NoResp
    /\ UNCHANGED <<now, oauthCodes, oauthRefreshTokens>>
    /\ UNCHANGED <<mcpVars, loginVars, proc, toolVars>>

\* the query for the user's unrevoked tokens is answered; the batch is built
\* and batch.commit() is called
LogoutQuery(r) ==
    /\ req[r].pc = "query"
    /\ req' = [req EXCEPT ![r].pc = "commit",
                          ![r].snap = ActiveTokens(oauthRefreshTokens, req[r].user)]
    /\ out' = NoResp
    /\ UNCHANGED <<now, users, oauthCodes, oauthRefreshTokens, lastLogout>>
    /\ UNCHANGED <<mcpVars, loginVars, proc, toolVars>>

\* the batch is committed and the count is returned
LogoutCommit(r) ==
    /\ req[r].pc = "commit"
    /\ oauthRefreshTokens' = BatchRevoke(oauthRefreshTokens, req[r].snap)
    /\ out' = [NoResp EXCEPT !.endpoint = "logout", !.status = 200,
                             !.revoked_tokens = Cardinality(req[r].snap),
                             !.req = req[r]]
    /\ lastLogout' = IF lastLogout.slot = r /\ ~lastLogout.done
                     THEN [lastLogout EXCEPT !.done = TRUE, !.alone = req[r].alone]
                     ELSE lastLogout
    /\ req' = [req EXCEPT ![r] = IdleReq]
    /\ UNCHANGED <<now, users, oauthCodes>>
    /\ UNCHANGED <<mcpVars, loginVars, proc, toolVars>>

(* -------------------------------- clock -------------------------------- *)
\* time passes, up to a limit
Advance(limit) ==
    /\ now < limit
    /\ now' = now + 1
    /\ out' = NoResp
    /\ UNCHANGED <<users, oauthCodes, oauthRefreshTokens, req, lastLogout>>
    /\ UNCHANGED <<mcpVars, loginVars, proc, toolVars>>

Tick == Advance(MaxTime)

\* the server is left alone for the lifetime of a refresh token, once
LongIdle ==
    /\ now <= MaxTime
    /\ now' = now + RefreshTTL
    /\ out' = NoResp
    /\ UNCHANGED <<users, oauthCodes, oauthRefreshTokens, req, lastLogout>>
    /\ UNCHANGED <<mcpVars, loginVars, proc, toolVars>>

(* ------------------------------- POST /mcp ----------------------------- *)
McpSlots == 1..NumMcp
SessionIds == 1..MaxSessions
NoSession == 0
\* the underlying connections requests come in on; the handlers never look
\* at the connection, it is kept as history
Conns == {"k1", "k2"}

\* the authorization headers a protocol message may carry: none, and bearers
\* with a string that is no token, the access token of u1, an access token
\* of u1 that has expired, an access token whose user document is gone, a
\* first ID token of a new user, and an ID token that has expired
McpHeaders ==
    {NoHeader, Bearer(Garbage), Bearer(createJWT("u1", 0)),
     Bearer(createJWT("u1", 0 - JwtTTL - 1)),
     Bearer(createJWT("u3", 0)), Bearer(FirebaseToken("u3", JwtTTL)),
     Bearer(FirebaseToken("u3", 0))}

\* what the credential verifier is specified to accept: an unexpired token
\* signed by this server whose principal resolves, or an unexpired ID token
\* of the identity provider
ValidCredential(h, us, t) ==
    /\ h.scheme = "Bearer"
    /\ t < h.token.exp
    /\ \/ h.token.kind = "jwt" /\ h.token.sig = "server" /\ h.token.sub \in us
       \/ h.token.kind = "firebase" /\ h.token.sig = "provider"

\* A request slot of /mcp.  known, overlapped and credValid are history:
\* whether the session identifier was in the table on arrival, whether
\* another first message of the same connection was in flight with this one,
\* and whether the credential was valid when it was verified; verdict is the
\* message of the error authenticateToken threw, and removed whether the
\* session identifier had been handed out and was in the table no more when
\* the request arrived.
IdleMcp ==
    [pc |-> "idle", sid |-> NoSession, header |-> NoHeader, conn |-> None,
     user |-> None, sessionId |-> NoSession,
     known |-> FALSE, overlapped |-> FALSE, credValid |-> FALSE,
     verdict |-> None, removed |-> FALSE]

McpInFlight(m) == mcp[m].pc # "idle"
McpFirstFree(m) == ~McpInFlight(m) /\ \A x \in McpSlots : x < m => McpInFlight(x)

\* res.status(status).json({ jsonrpc, error: { code, message }, id: null })
McpError(q, status, code, message) ==
    [NoResp EXCEPT !.endpoint = "mcp", !.status = status, !.error = code,
                   !.desc = message, !.fields = {"jsonrpc", "error", "id"},
                   !.req = q]
\* the transport of session sid answers the message
McpHandled(q, sid) ==
    [NoResp EXCEPT !.endpoint = "mcp", !.status = 200, !.sessionId = sid, !.req = q]

\* the identifier was handed out and is in the table no more
Removed(sid) == sid \in 1..nextSid /\ sid \notin DOMAIN sessions

\* a variant of the lookup that never finds the session, so that every
\* message has its credential verified
KnownSessionNever(tab, sid) == FALSE

\* existingSessionId && sessions.has(existingSessionId)
KnownSession(tab, sid) == sid # NoSession /\ sid \in DOMAIN tab

\* sessions.set(sessionId, { transport, user }): every session has its own
\* transport, named like the session
SetSession(tab, sid, user, conn, overlapped, credValid) ==
    (sid :> [user |-> user, transport |-> sid, conn |-> conn,
             overlapped |-> overlapped, credValid |-> credValid]) @@ tab

\* a variant of the deletion that leaves the table as it is
DeleteSessionSkipped(tab, sid) == tab

\* sessions.delete(sessionId)
DeleteSession(tab, sid) == [x \in DOMAIN tab \ {sid} |-> tab[x]]

\* the identifiers still to hand out cover the requests being authenticated
SidRoom == nextSid + Cardinality({m \in McpSlots : mcp[m].pc = "auth"}) < MaxSessions

\* the slots after first message q arrived in slot m
McpArrived(m, q) ==
    LET rivals == {x \in McpSlots \ {m} : mcp[x].pc = "auth" /\ mcp[x].conn = q.conn
                                          /\ mcp[x].sid = NoSession
                                          /\ q.sid = NoSession}
    IN [x \in McpSlots |->
          IF x = m THEN [q EXCEPT !.overlapped = rivals # {}]
          ELSE IF x \in rivals THEN [mcp[x] EXCEPT !.overlapped = TRUE]
          ELSE mcp[x]]

\* a message arrives: a known session's transport handles it; otherwise the
\* header is checked and authenticateToken is called
McpPost(m) ==
    /\ McpFirstFree(m)
    /\ \E sid \in SessionIds \cup {NoSession}, h \in McpHeaders, k \in Conns :
        LET q == [IdleMcp EXCEPT !.sid = sid, !.header = h, !.conn = k,
                                 !.known = sid \in DOMAIN sessions,
                                 !.removed = Removed(sid)]
        IN IF KnownSession(sessions, sid)
           THEN /\ out' = McpHandled([q EXCEPT !.user = sessions[sid].user], sid)
                /\ UNCHANGED mcp
           ELSE IF ~HasBearer(h)
           THEN /\ out' = McpError(q, 401, -32001, "Authentication required")
                /\ UNCHANGED mcp
           ELSE /\ SidRoom
                /\ mcp' = McpArrived(m, [q EXCEPT !.pc = "auth"])
                /\ out' = NoResp
    /\ UNCHANGED <<now, users, sessions, nextSid>>
    /\ UNCHANGED <<authVars, loginVars, proc, toolVars>>

\* authenticateToken returns or throws; on success the session is created
\* and server.connect(transport) is called
McpAuth(m) ==
    /\ mcp[m].pc = "auth"
    /\ LET q == mcp[m]
           a == authenticateToken(q.header.token, users, now)
           sid == nextSid + 1
       IN /\ users' = a.users
          /\ IF ~a.ok
             THEN /\ out' = McpError([q EXCEPT !.verdict = a.message], 401, -32001,
                                      "Invalid authentication token")
                  /\ mcp' = [mcp EXCEPT ![m] = IdleMcp]
                  /\ UNCHANGED <<sessions, nextSid>>
             ELSE /\ sessions' = SetSession(sessions, sid, a.user, q.conn, q.overlapped,
                                            ValidCredential(q.header, users, now))
                  /\ nextSid' = sid
                  /\ mcp' = [mcp EXCEPT ![m].pc = "handle", ![m].user = a.user,
                                        ![m].sessionId = sid,
                                        ![m].credValid =
                                            ValidCredential(q.header, users, now)]
                  /\ out' = NoResp
    /\ UNCHANGED now
    /\ UNCHANGED <<authVars, loginVars, proc, toolVars>>

\* the server is connected and the new transport handles the first message
McpHandle(m) ==
    /\ mcp[m].pc = "handle"
    /\ out' = McpHandled(mcp[m], mcp[m].sessionId)
    /\ mcp' = [mcp EXCEPT ![m] = IdleMcp]
    /\ UNCHANGED <<now, users, sessions, nextSid>>
    /\ UNCHANGED <<authVars, loginVars, proc, toolVars>>

(* ------------------------------- GET /mcp ------------------------------ *)
\* a variant of the session test that never finds the session missing
MissingSessionNever(tab, sid) == FALSE

\* !sessionId || !sessions.has(sessionId)
MissingSession(tab, sid) == sid = NoSession \/ sid \notin DOMAIN tab

\* an unknown or missing identifier is refused; otherwise the session's
\* transport handles the request
McpGet ==
    /\ \E sid \in SessionIds \cup {NoSession} :
        LET q == [IdleMcp EXCEPT !.sid = sid, !.known = sid \in DOMAIN sessions,
                                 !.removed = Removed(sid)]
        IN IF MissingSession(sessions, sid)
           THEN out' = [McpError(q, 400, -32000, "Invalid or missing session ID")
                           EXCEPT !.endpoint = "mcp_get"]
           ELSE out' = [McpHandled(q, sid) EXCEPT !.endpoint = "mcp_get"]
    /\ UNCHANGED <<now, users, sessions, nextSid, mcp>>
    /\ UNCHANGED <<authVars, loginVars, proc, toolVars>>

(* ------------------------------ DELETE /mcp ---------------------------- *)
\* an unknown or missing identifier is refused; otherwise the session's
\* transport handles the request and the session is deleted
McpDelete ==
    /\ \E sid \in SessionIds \cup {NoSession} :
        LET q == [IdleMcp EXCEPT !.sid = sid, !.known = sid \in DOMAIN sessions,
                                 !.removed = Removed(sid)]
        IN IF MissingSession(sessions, sid)
           THEN /\ out' = [McpError(q, 400, -32000, "Invalid or missing session ID")
                              EXCEPT !.endpoint = "mcp_delete"]
                /\ UNCHANGED sessions
           ELSE /\ out' = [McpHandled(q, sid) EXCEPT !.endpoint = "mcp_delete"]
                /\ sessions' = DeleteSession(sessions, sid)
    /\ UNCHANGED <<now, users, nextSid, mcp>>
    /\ UNCHANGED <<authVars, loginVars, proc, toolVars>>

(* --------------------------- transport.onclose ------------------------- *)
\* the transport of a session closes: its onclose handler deletes the session
TransportClose ==
    /\ \E sid \in DOMAIN sessions : sessions' = DeleteSession(sessions, sid)
    /\ out' = NoResp
    /\ UNCHANGED <<now, users, nextSid, mcp>>
    /\ UNCHANGED <<authVars, loginVars, proc, toolVars>>

(* -------------------------------- shutdown ----------------------------- *)
\* SIGTERM or SIGINT: every transport in the table is closed, the table is
\* cleared and server.close stops the listener; handlers that are awaiting
\* go on
Shutdown ==
    /\ proc.mode = "http"
    /\ ~proc.exited
    /\ proc' = [proc EXCEPT !.shuttingDown = TRUE, !.listening = FALSE,
                            !.closed = @ \cup DOMAIN sessions]
    /\ sessions' = <<>>
    /\ out' = NoResp
    /\ UNCHANGED <<now, users, nextSid, mcp>>
    /\ UNCHANGED <<authVars, loginVars, toolVars>>

\* process.exit, from the callback of server.close or after ten seconds
Exit ==
    /\ proc.shuttingDown
    /\ ~proc.exited
    /\ proc' = [proc EXCEPT !.exited = TRUE]
    /\ out' = NoResp
    /\ UNCHANGED <<now, users, sessions, nextSid, mcp>>
    /\ UNCHANGED <<authVars, loginVars, toolVars>>

(* ----------------------------- GET /auth/login ------------------------- *)
States == {"s1", "s2"}
CbSlots == 1..NumCb

\* the query of the client that starts the S256 flow for verifier v1, and of
\* the client that starts the plain flow for it
S256Login ==
    [state |-> "s1", redirect_uri |-> "uriA", code_challenge |-> S256("v1"),
     code_challenge_method |-> None, scope |-> None]
PlainLogin ==
    [S256Login EXCEPT !.code_challenge = "v1", !.code_challenge_method = "plain"]

\* the queries tried: the two above and those that differ from the first in
\* one parameter (another value, or none)
LoginInputs ==
    {PlainLogin} \cup
    {i \in [state : States \cup {None}, redirect_uri : {"uriA", None},
            code_challenge : {S256("v1"), None},
            code_challenge_method : {None},
            scope : {None, "briefings:read"}] :
        Cardinality({f \in DOMAIN S256Login : i[f] # S256Login[f]}) <= 1}

\* a variant of the test below that does not look at the state
MissingLoginParamsNoState(i) == i.redirect_uri = None \/ i.code_challenge = None

\* if (!redirect_uri || !state || !code_challenge)
MissingLoginParams(i) ==
    i.redirect_uri = None \/ i.state = None \/ i.code_challenge = None

\* the entry pendingAuthRequests.set stores; pid is history, the number of
\* the entry among all entries ever stored
PendingDoc(i, t, pid) ==
    [codeChallenge |-> i.code_challenge,
     codeChallengeMethod |-> IF i.code_challenge_method = None THEN "S256"
                             ELSE i.code_challenge_method,
     redirectUri |-> i.redirect_uri,
     scope |-> IF i.scope = None THEN DefaultScope ELSE i.scope,
     clientId |-> "",
     createdAt |-> t,
     pid |-> pid]
NoPending ==
    [codeChallenge |-> None, codeChallengeMethod |-> None, redirectUri |-> None,
     scope |-> None, clientId |-> None, createdAt |-> 0, pid |-> 0]

\* pendingAuthRequests.set(state, entry)
SetPending(tab, state, entry) == (state :> entry) @@ tab
\* pendingAuthRequests.delete(state)
DeletePending(tab, state) == [x \in DOMAIN tab \ {state} |-> tab[x]]

\* res.redirect(url)
Redirect(endpoint, q, location, code) ==
    [NoResp EXCEPT !.endpoint = endpoint, !.status = 302, !.location = location,
                   !.code = code, !.req = q]

\* the handler is synchronous: the check, the set and the redirect
Login ==
    /\ \E i \in LoginInputs :
        IF MissingLoginParams(i)
        THEN /\ out' = ErrorResp("login", i, 400, "invalid_request",
                  "Missing required parameters: redirect_uri, state, code_challenge")
             /\ UNCHANGED <<pendingAuthRequests, nextPid>>
        ELSE /\ nextPid < MaxLogins
             /\ pendingAuthRequests' =
                    SetPending(pendingAuthRequests, i.state,
                               PendingDoc(i, now, nextPid + 1))
             /\ nextPid' = nextPid + 1
             /\ out' = Redirect("login", i, "protime.ai/auth/connect", None)
    /\ UNCHANGED <<now, users, cb, minted, lastSweep>>
    /\ UNCHANGED <<authVars, mcpVars, proc, toolVars>>

(* --------------------------- cleanup interval -------------------------- *)
\* a variant of the test that also finds an entry of exactly that age stale
StaleOrDue(entry, t) == entry.createdAt <= t - PendingTTL

\* value.createdAt < fifteenMinutesAgo
Stale(entry, t) == entry.createdAt < t - PendingTTL

\* the entries the cleanup keeps
Swept(tab, t) ==
    [x \in {y \in DOMAIN tab : ~Stale(tab[y], t)} |-> tab[x]]

\* the interval has elapsed since the cleanup fired last
SweepDue == lastSweep + SweepPeriod <= now

\* the callback of setInterval
Sweep ==
    /\ SweepDue
    /\ pendingAuthRequests' = Swept(pendingAuthRequests, now)
    /\ lastSweep' = lastSweep + SweepPeriod
    /\ proc' = [proc EXCEPT !.swept = DOMAIN pendingAuthRequests
                                        \ DOMAIN Swept(pendingAuthRequests, now)]
    /\ out' = NoResp
    /\ UNCHANGED <<now, users, cb, nextPid, minted>>
    /\ UNCHANGED <<authVars, mcpVars, toolVars>>

(* ---------------------------- GET /auth/callback ----------------------- *)
\* the code parameter: a string is carried as a token of no kind
Literal(str) == [Garbage EXCEPT !.sub = str]
NoGrant == Garbage

\* the grants tried: none, the id of a stored user, the id of no user, and
\* an ID token of a federated identity that has no user document
CallbackGrants ==
    {NoGrant, Literal("u1"), Literal("u9"), FirebaseToken("u3", JwtTTL)}

\* the queries tried: the id of a stored user with the state of the S256
\* flow, and those that differ from it in one parameter
ValidCallback == [code |-> Literal("u1"), state |-> "s1"]
CallbackInputs ==
    {i \in [code : CallbackGrants, state : States \cup {None}] :
        i.code = ValidCallback.code \/ i.state = ValidCallback.state}

\* A request slot of /auth/callback.  known and wasStale are history:
\* whether an entry was stored under the state on arrival and whether that
\* entry was older than the time to live.
IdleCb ==
    [pc |-> "idle", state |-> None, grant |-> NoGrant, pending |-> NoPending,
     userId |-> None, expiresAt |-> 0, mintedAt |-> 0,
     known |-> FALSE, wasStale |-> FALSE]

CbInFlight(k) == cb[k].pc # "idle"
CbQuiet == \A k \in CbSlots : ~CbInFlight(k)
CbFirstFree(k) == ~CbInFlight(k) /\ \A x \in CbSlots : x < k => CbInFlight(x)

\* if (!code || !state)
MissingCallbackParams(grant, state) == grant = NoGrant \/ state = None
\* pendingAuthRequests.get(state)
GetPending(tab, state) == IF state \in DOMAIN tab THEN tab[state] ELSE NoPending
\* a variant of the test below that lets every state pass
HasPendingAlways(tab, state) == TRUE

\* if (!pending) is not taken
HasPending(tab, state) == GetPending(tab, state) # NoPending

\* randomUUID(): the codes are handed out in this order
CodeOrder == <<"c1", "c2">>
FreshCode(codes) == CodeOrder[Cardinality(DOMAIN codes) + 1]
\* the store has room for the document a request is about to create
CodeRoom ==
    Cardinality(DOMAIN oauthCodes)
        + Cardinality({k \in CbSlots : cb[k].pc = "set"}) < Len(CodeOrder)

\* a variant of the document below that takes the default scope
MintedDocDefaultScope(userId, pending, expiresAt) ==
    [userId |-> userId, codeChallenge |-> pending.codeChallenge,
     codeChallengeMethod |-> pending.codeChallengeMethod,
     redirectUri |-> pending.redirectUri, scope |-> DefaultScope,
     clientId |-> pending.clientId, expiresAt |-> expiresAt, used |-> FALSE]

\* the document oauthCodes.doc(authorizationCode).set writes
MintedDoc(userId, pending, expiresAt) ==
    [userId |-> userId, codeChallenge |-> pending.codeChallenge,
     codeChallengeMethod |-> pending.codeChallengeMethod,
     redirectUri |-> pending.redirectUri, scope |-> pending.scope,
     clientId |-> pending.clientId, expiresAt |-> expiresAt, used |-> FALSE]

\* the parameter check and the lookup of the state; auth.verifyIdToken(code)
\* is called
CallbackArrive(k) ==
    /\ CbFirstFree(k)
    /\ \E i \in CallbackInputs :
        LET g == i.code
            st == i.state
            known == st \in DOMAIN pendingAuthRequests
            q == [IdleCb EXCEPT
                    !.state = st, !.grant = g, !.known = known,
                    !.wasStale = known /\
                        pendingAuthRequests[st].createdAt + PendingTTL < now]
        IN IF MissingCallbackParams(g, st)
           THEN /\ out' = ErrorResp("callback", q, 400, "invalid_request",
                            "Missing required parameters: code, state")
                /\ UNCHANGED cb
           ELSE IF ~HasPending(pendingAuthRequests, st)
           THEN /\ out' = ErrorResp("callback", q, 400, "invalid_request",
                            "Unknown or expired state parameter")
                /\ UNCHANGED cb
           ELSE /\ cb' = [cb EXCEPT ![k] =
                            [q EXCEPT !.pc = "verify",
                                      !.pending = GetPending(pendingAuthRequests, st)]]
                /\ out' = NoResp
    /\ UNCHANGED <<now, users, pendingAuthRequests, nextPid, minted, lastSweep>>
    /\ UNCHANGED <<authVars, mcpVars, proc, toolVars>>

\* auth.verifyIdToken(code) returns or throws: the uid is the user, or the
\* user document named by the code is asked for
CallbackVerify(k) ==
    /\ cb[k].pc = "verify"
    /\ IF FirebaseVerify(cb[k].grant, now)
       THEN /\ CodeRoom
            /\ cb' = [cb EXCEPT ![k].pc = "set", ![k].userId = cb[k].grant.sub,
                                ![k].expiresAt = now + CodeTTL,
                                ![k].mintedAt = now]
       ELSE cb' = [cb EXCEPT ![k].pc = "lookup"]
    /\ out' = NoResp
    /\ UNCHANGED <<now, users, pendingAuthRequests, nextPid, minted, lastSweep>>
    /\ UNCHANGED <<authVars, mcpVars, proc, toolVars>>

\* collections.users.doc(code).get() is answered
CallbackLookup(k) ==
    /\ cb[k].pc = "lookup"
    /\ IF cb[k].grant.sub \notin users
       THEN /\ out' = ErrorResp("callback", cb[k], 400, "invalid_grant",
                            "Invalid authorization code")
            /\ cb' = [cb EXCEPT ![k] = IdleCb]
       ELSE /\ CodeRoom
            /\ cb' = [cb EXCEPT ![k].pc = "set", ![k].userId = cb[k].grant.sub,
                                ![k].expiresAt = now + CodeTTL,
                                ![k].mintedAt = now]
            /\ out' = NoResp
    /\ UNCHANGED <<now, users, pendingAuthRequests, nextPid, minted, lastSweep>>
    /\ UNCHANGED <<authVars, mcpVars, proc, toolVars>>

\* the code document is written; the pending request is deleted and the
\* client is redirected with the code
CallbackSet(k) ==
    /\ cb[k].pc = "set"
    /\ LET q == cb[k]
           c == FreshCode(oauthCodes)
       IN /\ oauthCodes' = (c :> MintedDoc(q.userId, q.pending, q.expiresAt))
                                @@ oauthCodes
          /\ minted' = (c :> [pending |-> q.pending, at |-> q.mintedAt,
                              state |-> q.state]) @@ minted
          /\ pendingAuthRequests' = DeletePending(pendingAuthRequests, q.state)
          /\ out' = Redirect("callback", q, q.pending.redirectUri, c)
    /\ cb' = [cb EXCEPT ![k] = IdleCb]
    /\ UNCHANGED <<now, users, nextPid, lastSweep>>
    /\ UNCHANGED <<oauthRefreshTokens, req, lastLogout>>
    /\ UNCHANGED <<mcpVars, proc, toolVars>>

\* the user lookup or the write of the code document rejects: nothing is
\* written, the pending request stays, and the error handling middleware
\* answers
CallbackFail(k) ==
    /\ cb[k].pc \in {"lookup", "set"}
    /\ out' = InternalError("callback", cb[k])
    /\ cb' = [cb EXCEPT ![k] = IdleCb]
    /\ UNCHANGED <<now, users, pendingAuthRequests, nextPid, minted, lastSweep>>
    /\ UNCHANGED <<authVars, mcpVars, proc, toolVars>>

(* ------------------------------ the process ---------------------------- *)
\* the environment variables runStdioMode reads
NoEnv == [STDIO_USER_ID |-> None, STDIO_USER_TIER |-> None]

\* The process.  mode is the transport the entry point chose, listening
\* whether app.listen has bound the port and server.close has not been
\* called, shuttingDown whether shutdown has run, exited whether
\* process.exit has run; argv and env are the arguments and environment
\* the process was started with, localUser the user runStdioMode built.
\* closed and swept are history: the sessions whose transport shutdown
\* closed, and the states whose entries the last cleanup deleted.
BootProc ==
    [mode |-> "boot", argv |-> {}, env |-> NoEnv, listening |-> FALSE,
     shuttingDown |-> FALSE, exited |-> FALSE, localUser |-> None, closed |-> {},
     swept |-> {}]

\* a process that runHttpMode has brought up
HttpProc == [BootProc EXCEPT !.mode = "http", !.listening = TRUE]

\* the server takes requests
Serving == proc.listening /\ ~proc.exited

\* the environments and argument lists a process is started with
Envs == [STDIO_USER_ID : {None, "u7"}, STDIO_USER_TIER : {None, "free"}]
Argvs == {{}, {"--stdio"}}

\* process.argv.includes('--stdio')
isStdio(argv) == "--stdio" \in argv

\* the user runStdioMode builds: process.env.STDIO_USER_ID || 'local-user',
\* process.env.STDIO_USER_TIER || 'pro'
LocalUser(env) ==
    [id |-> IF env.STDIO_USER_ID = None THEN "local-user" ELSE env.STDIO_USER_ID,
     tier |-> IF env.STDIO_USER_TIER = None THEN "pro" ELSE env.STDIO_USER_TIER]

\* a variant of runStdioMode that also binds the HTTP port
runStdioModeListening(p) ==
    [p EXCEPT !.mode = "stdio", !.localUser = LocalUser(p.env), !.listening = TRUE]

\* runStdioMode(): the local user is built and a server bound to it is
\* connected to a StdioServerTransport
runStdioMode(p) == [p EXCEPT !.mode = "stdio", !.localUser = LocalUser(p.env)]

\* runHttpMode(): the routes are set up and app.listen binds the port
runHttpMode(p) == [p EXCEPT !.mode = "http", !.listening = TRUE]

\* the entry point
Start ==
    /\ proc.mode = "boot"
    /\ proc' = IF isStdio(proc.argv) THEN runStdioMode(proc) ELSE runHttpMode(proc)
    /\ out' = NoResp
    /\ UNCHANGED <<now, users>>
    /\ UNCHANGED <<authVars, mcpVars, loginVars, toolVars>>

\* the tools a client may call
ToolNames == {"get_briefings", "create_briefing"}

\* a tool invocation arrives on stdin: the server asks the getUser callback
\* it was created with for the user and runs the tool as that user
StdioCall ==
    /\ proc.mode = "stdio"
    /\ \E tool \in ToolNames :
        out' = [NoResp EXCEPT !.endpoint = "stdio", !.status = 200, !.desc = tool,
                              !.req = [IdleMcp EXCEPT !.user = proc.localUser]]
    /\ UNCHANGED <<now, users, proc>>
    /\ UNCHANGED <<authVars, mcpVars, loginVars, toolVars>>

(* ---------------------------- briefing tools --------------------------- *)
CallSlots == 1..NumCalls
BriefingIds == 1..MaxBriefingDocs

\* FREE_TIER_LIMITS
FREE_TIER_LIMITS == [maxBriefings |-> 1]
\* PRO_TIER_LIMITS: maxBriefings is Infinity, more than the store ever holds
PRO_TIER_LIMITS == [maxBriefings |-> MaxBriefingDocs + 1]

\* the tier field of the user documents: u1 is a free user, u2 a pro user
TierOf(u) == IF u = "u1" THEN "free" ELSE "pro"

IdleCall ==
    [pc |-> "idle", toolName |-> None, user |-> None, briefingId |-> 0, size |-> 0]
CallInFlight(c) == toolCalls[c].pc # "idle"

\* briefingsRef.where('archived', '==', false).get() on the user's collection
ExistingBriefings(docs, u) ==
    {b \in DOMAIN docs : docs[b].userId = u /\ ~docs[b].archived}

\* user.tier === 'free' ? FREE_TIER_LIMITS : PRO_TIER_LIMITS
Limits(tier) == IF tier = "free" THEN FREE_TIER_LIMITS ELSE PRO_TIER_LIMITS

\* existingBriefings.size >= limits.maxBriefings
LimitReached(size, tier) == size >= Limits(tier).maxBriefings

\* the document briefingRef.set writes
BriefingDoc(u) == [userId |-> u, archived |-> FALSE]

\* briefingsRef.doc(): a new document id
FreshBriefing(docs) == Cardinality(DOMAIN docs) + 1

\* the store has room for the documents the calls in flight will write
DocRoom ==
    Cardinality(DOMAIN userBriefings)
        + Cardinality({c \in CallSlots : toolCalls[c].pc = "set"}) < MaxBriefingDocs

\* res.json({ success: true, data: result })
ToolOk(q) ==
    [NoResp EXCEPT !.endpoint = "tools", !.status = 200,
                   !.fields = {"success", "data"}, !.req = q]

\* create_briefing is called for an authenticated user; the query for the
\* user's briefings that are not archived is answered and the limit of the
\* tier is checked; briefingRef.set is called
CreateQuery(c) ==
    /\ ~CallInFlight(c)
    /\ \E u \in UserIds :
        LET size == Cardinality(ExistingBriefings(userBriefings, u))
            q == [IdleCall EXCEPT !.toolName = "create_briefing", !.user = u,
                                  !.size = size]
        IN IF LimitReached(size, TierOf(u))
           THEN /\ out' = EnvelopeResp("tools", q, 402, "TIER_LIMIT",
                              "Free tier allows only 1 briefing")
                /\ UNCHANGED toolCalls
           ELSE /\ DocRoom
                /\ toolCalls' = [toolCalls EXCEPT ![c] = [q EXCEPT !.pc = "set"]]
                /\ out' = NoResp
    /\ UNCHANGED <<now, users, userBriefings, proc>>
    /\ UNCHANGED <<authVars, mcpVars, loginVars>>

\* the document is written and the briefing is returned
CreateSet(c) ==
    /\ toolCalls[c].pc = "set"
    /\ LET id == FreshBriefing(userBriefings)
       IN /\ userBriefings' = (id :> BriefingDoc(toolCalls[c].user)) @@ userBriefings
          /\ out' = ToolOk([toolCalls[c] EXCEPT !.briefingId = id])
    /\ toolCalls' = [toolCalls EXCEPT ![c] = IdleCall]
    /\ UNCHANGED <<now, users, proc>>
    /\ UNCHANGED <<authVars, mcpVars, loginVars>>

\* delete_briefing: briefingRef.get() is answered; update is called when the
\* document exists in the user's collection
DeleteGet(c) ==
    /\ ~CallInFlight(c)
    /\ \E u \in UserIds, b \in BriefingIds :
        LET q == [IdleCall EXCEPT !.toolName = "delete_briefing", !.user = u,
                                  !.briefingId = b]
        IN IF ~(b \in DOMAIN userBriefings /\ userBriefings[b].userId = u)
           THEN /\ out' = EnvelopeResp("tools", q, 404, "NOT_FOUND",
                              "Briefing not found")
                /\ UNCHANGED toolCalls
           ELSE /\ toolCalls' = [toolCalls EXCEPT ![c] = [q EXCEPT !.pc = "update"]]
                /\ out' = NoResp
    /\ UNCHANGED <<now, users, userBriefings, proc>>
    /\ UNCHANGED <<authVars, mcpVars, loginVars>>

\* the soft delete: the document is marked archived
DeleteUpdate(c) ==
    /\ toolCalls[c].pc = "update"
    /\ userBriefings' = [userBriefings EXCEPT ![toolCalls[c].briefingId].archived = TRUE]
    /\ out' = ToolOk(toolCalls[c])
    /\ toolCalls' = [toolCalls EXCEPT ![c] = IdleCall]
    /\ UNCHANGED <<now, users, proc>>
    /\ UNCHANGED <<authVars, mcpVars, loginVars>>

(* ------------------------------ the system ----------------------------- *)
\* the document GET /auth/callback writes when it mints a code for user u at
\* time t from a pending request with the given challenge
CodeDoc(u, challenge, method, redirectUri, t) ==
    [userId |-> u, codeChallenge |-> challenge, codeChallengeMethod |-> method,
     redirectUri |-> redirectUri, scope |-> DefaultScope, clientId |-> "",
     expiresAt |-> t + CodeTTL, used |-> FALSE]

\* The stores are persistent: the process starts with the user documents of
\* u1 and u2 and one authorization code just minted for u1.
Init ==
    /\ now = 0
    /\ users = UserIds
    /\ oauthCodes = ("c1" :> CodeDoc("u1", S256("v1"), "S256", "uriA", 0))
    /\ oauthRefreshTokens = <<>>
    /\ req = [r \in Slots |-> IdleReq]
    /\ out = NoResp
    /\ lastLogout = NoLogout
    /\ sessions = <<>>
    /\ nextSid = 0
    /\ mcp = [m \in McpSlots |-> IdleMcp]
    /\ pendingAuthRequests = <<>>
    /\ cb = [k \in CbSlots |-> IdleCb]
    /\ nextPid = 0
    /\ minted = <<>>
    /\ lastSweep = 0
    /\ userBriefings = <<>>
    /\ toolCalls = [c \in CallSlots |-> IdleCall]
    /\ proc = HttpProc

\* a request arrives in slot r
Arrive(r) ==
    \/ ExchangeArrive(r)
    \/ RefreshArrive(r)
    \/ UnsupportedGrant(r)
    \/ LogoutArrive(r)

\* the handler of the request in slot r goes on after an await
Step(r) ==
    \/ ExchangeUpdate(r)
    \/ ExchangeSet(r)
    \/ RefreshUpdate(r)
    \/ RefreshSet(r)
    \/ LogoutQuery(r)
    \/ LogoutCommit(r)

\* requests overlap freely; the clock stands still
Next == \E r \in Slots : Arrive(r) \/ Step(r)

Spec == Init /\ [][Next]_vars

\* one request at a time, at any time
NextSeq ==
    \/ Quiet /\ \E r \in Slots : Arrive(r)
    \/ \E r \in Slots : Step(r)
    \/ Tick

SpecSeq == Init /\ [][NextSeq]_vars

\* the protocol endpoint
NextMcp ==
    \/ \E m \in McpSlots : McpPost(m) \/ McpAuth(m) \/ McpHandle(m)
    \/ McpGet
    \/ McpDelete
    \/ TransportClose

SpecMcp == Init /\ [][NextMcp]_vars

\* /mcp with one request at a time
McpQuiet == \A m \in McpSlots : ~McpInFlight(m)
NextMcpSeq ==
    \/ McpQuiet /\ \E m \in McpSlots : McpPost(m)
    \/ \E m \in McpSlots : McpAuth(m) \/ McpHandle(m)
    \/ McpQuiet /\ McpGet
    \/ McpQuiet /\ McpDelete
    \/ TransportClose

SpecMcpSeq == Init /\ [][NextMcpSeq]_vars

\* /mcp with one request at a time and the shutdown signal; once
\* server.close has been called no new request arrives, and nothing runs
\* after process.exit
NextStop ==
    \/ Serving /\ McpQuiet /\ \E m \in McpSlots : McpPost(m)
    \/ ~proc.exited /\ \E m \in McpSlots : McpAuth(m) \/ McpHandle(m)
    \/ Serving /\ McpQuiet /\ McpGet
    \/ Serving /\ McpQuiet /\ McpDelete
    \/ ~proc.exited /\ TransportClose
    \/ Shutdown
    \/ Exit

SpecStop == Init /\ [][NextStop]_vars

\* a process about to run its entry point
InitBoot ==
    /\ now = 0
    /\ users = UserIds
    /\ oauthCodes = <<>>
    /\ oauthRefreshTokens = <<>>
    /\ req = [r \in Slots |-> IdleReq]
    /\ out = NoResp
    /\ lastLogout = NoLogout
    /\ sessions = <<>>
    /\ nextSid = 0
    /\ mcp = [m \in McpSlots |-> IdleMcp]
    /\ pendingAuthRequests = <<>>
    /\ cb = [k \in CbSlots |-> IdleCb]
    /\ nextPid = 0
    /\ minted = <<>>
    /\ lastSweep = 0
    /\ userBriefings = <<>>
    /\ toolCalls = [c \in CallSlots |-> IdleCall]
    /\ proc \in {[BootProc EXCEPT !.argv = a, !.env = e] : a \in Argvs, e \in Envs}

\* the process from its start: the entry point, then /auth/logout and /mcp
\* with one request at a time while the listener is up, or tool invocations
\* on stdin
NextProc ==
    \/ Start
    \/ StdioCall
    \/ Serving /\ Quiet /\ McpQuiet /\ \E r \in Slots : LogoutArrive(r)
    \/ \E r \in Slots : LogoutQuery(r) \/ LogoutCommit(r)
    \/ Serving /\ Quiet /\ McpQuiet /\ \E m \in McpSlots : McpPost(m)
    \/ \E m \in McpSlots : McpAuth(m) \/ McpHandle(m)

SpecProc == InitBoot /\ [][NextProc]_vars

\* a process started on an empty code store
InitLogin ==
    /\ now = 0
    /\ users = UserIds
    /\ oauthCodes = <<>>
    /\ oauthRefreshTokens = <<>>
    /\ req = [r \in Slots |-> IdleReq]
    /\ out = NoResp
    /\ lastLogout = NoLogout
    /\ sessions = <<>>
    /\ nextSid = 0
    /\ mcp = [m \in McpSlots |-> IdleMcp]
    /\ pendingAuthRequests = <<>>
    /\ cb = [k \in CbSlots |-> IdleCb]
    /\ nextPid = 0
    /\ minted = <<>>
    /\ lastSweep = 0
    /\ userBriefings = <<>>
    /\ toolCalls = [c \in CallSlots |-> IdleCall]
    /\ proc = HttpProc

\* the handler of the callback in slot k goes on after an await
CbStep(k) == CallbackVerify(k) \/ CallbackLookup(k) \/ CallbackSet(k)

\* the authorization endpoints with overlapping callbacks; the clock stands
\* still
NextLogin ==
    \/ Login
    \/ \E k \in CbSlots : CallbackArrive(k) \/ CbStep(k)

SpecLogin == InitLogin /\ [][NextLogin]_vars

\* the whole flow with one request at a time: login, callback, exchange;
\* the clock stands still
AllQuiet == Quiet /\ CbQuiet
NextFlow ==
    \/ AllQuiet /\ Login
    \/ AllQuiet /\ \E k \in CbSlots : CallbackArrive(k)
    \/ \E k \in CbSlots : CbStep(k)
    \/ AllQuiet /\ \E r \in Slots : ExchangeArrive(r)
    \/ \E r \in Slots : ExchangeUpdate(r) \/ ExchangeSet(r)

SpecFlow == InitLogin /\ [][NextFlow]_vars

\* the authorization endpoints with one request at a time, the clock
\* running and the cleanup firing when its interval has elapsed
NextAged ==
    \/ CbQuiet /\ Login
    \/ CbQuiet /\ \E k \in CbSlots : CallbackArrive(k)
    \/ \E k \in CbSlots : CbStep(k)
    \/ Sweep
    \/ ~SweepDue /\ Tick

SpecAged == InitLogin /\ [][NextAged]_vars

\* logins, the clock and the cleanup firing when its interval has elapsed,
\* long enough for entries to grow stale
NextSweep ==
    \/ Login
    \/ Sweep
    \/ ~SweepDue /\ Advance(MaxAge)

SpecSweep == InitLogin /\ [][NextSweep]_vars

\* the two credential verifiers with one request at a time: requireAuth in
\* front of /auth/logout and authenticateToken behind POST /mcp
NextVerify ==
    \/ Quiet /\ McpQuiet /\ \E r \in Slots : LogoutArrive(r)
    \/ \E r \in Slots : LogoutQuery(r) \/ LogoutCommit(r)
    \/ Quiet /\ McpQuiet /\ \E m \in McpSlots : McpPost(m)
    \/ \E m \in McpSlots : McpAuth(m) \/ McpHandle(m)

SpecVerify == Init /\ [][NextVerify]_vars

\* the whole flow and the rotation of the tokens it issues, one request at a
\* time; the clock stands still
NextChain ==
    \/ AllQuiet /\ Login
    \/ AllQuiet /\ \E k \in CbSlots : CallbackArrive(k)
    \/ \E k \in CbSlots : CbStep(k)
    \/ AllQuiet /\ \E r \in Slots : ExchangeArrive(r)
    \/ \E r \in Slots : ExchangeUpdate(r) \/ ExchangeSet(r)
    \/ AllQuiet /\ \E r \in Slots : RefreshArrive(r)
    \/ \E r \in Slots : RefreshUpdate(r) \/ RefreshSet(r)

SpecChain == InitLogin /\ [][NextChain]_vars

\* token requests one at a time, with a clock that can also pass the thirty
\* days a refresh token lives
NextExpiry ==
    \/ Quiet /\ \E r \in Slots : ExchangeArrive(r)
    \/ \E r \in Slots : ExchangeUpdate(r) \/ ExchangeSet(r)
    \/ Quiet /\ \E r \in Slots : RefreshArrive(r)
    \/ \E r \in Slots : RefreshUpdate(r) \/ RefreshSet(r)
    \/ Quiet /\ \E r \in Slots : LogoutArrive(r)
    \/ \E r \in Slots : LogoutQuery(r) \/ LogoutCommit(r)
    \/ Tick
    \/ LongIdle

SpecExpiry == Init /\ [][NextExpiry]_vars

\* exchanges, logouts and POST /mcp over one connection, one request at a
\* time, with at most one authorization pending
NextSignOut ==
    \/ AllQuiet /\ McpQuiet /\ pendingAuthRequests = <<>> /\ Login
    \/ AllQuiet /\ McpQuiet /\ \E r \in Slots : ExchangeArrive(r)
    \/ \E r \in Slots : ExchangeUpdate(r) \/ ExchangeSet(r)
    \/ AllQuiet /\ McpQuiet /\ \E r \in Slots : LogoutArrive(r)
    \/ \E r \in Slots : LogoutQuery(r) \/ LogoutCommit(r)
    \/ AllQuiet /\ McpQuiet /\ \E m \in McpSlots :
            /\ McpPost(m)
            /\ mcp'[m].conn # "k2"
            /\ out'.endpoint = "mcp" => out'.req.conn # "k2"
    \/ \E m \in McpSlots : McpAuth(m) \/ McpHandle(m)

SpecSignOut == Init /\ [][NextSignOut]_vars

\* exchanges and refreshes, one request at a time, whose store calls can
\* fail
NextStoreFail ==
    \/ Quiet /\ \E r \in Slots : ExchangeArrive(r)
    \/ \E r \in Slots : ExchangeUpdate(r) \/ ExchangeSet(r)
    \/ Quiet /\ \E r \in Slots : RefreshArrive(r)
    \/ \E r \in Slots : RefreshUpdate(r) \/ RefreshSet(r)
    \/ \E r \in Slots : TokenFail(r)
    \/ Tick

SpecStoreFail == Init /\ [][NextStoreFail]_vars

\* the briefing tools; calls may overlap
NextBriefings ==
    \/ \E c \in CallSlots : CreateQuery(c)
    \/ \E c \in CallSlots : CreateSet(c)
    \/ \E c \in CallSlots : DeleteGet(c)
    \/ \E c \in CallSlots : DeleteUpdate(c)

SpecBriefings == Init /\ [][NextBriefings]_vars

\* the whole flow with one request at a time, where the store calls the
\* handlers await may reject
NextFail ==
    \/ AllQuiet /\ Login
    \/ AllQuiet /\ \E k \in CbSlots : CallbackArrive(k)
    \/ \E k \in CbSlots : CbStep(k)
    \/ AllQuiet /\ \E r \in Slots : ExchangeArrive(r)
    \/ \E r \in Slots : ExchangeUpdate(r) \/ ExchangeSet(r)
    \/ \E r \in Slots : TokenFail(r)
    \/ \E k \in CbSlots : CallbackFail(k)

SpecFail == InitLogin /\ [][NextFail]_vars

(* ======================================================================= *)
(*                               properties                                *)
(* ======================================================================= *)
IsExchange == out.endpoint = "token" /\ out.req.grant = "authorization_code"
IsRefresh == out.endpoint = "token" /\ out.req.grant = "refresh_token"
InvalidGrant == out.status = 400 /\ out.error = "invalid_grant"
                    /\ out.refresh_token = NoToken /\ out.access_token = Garbage

\* the verifier presented hashes to the challenge stored with the code
VerifierMatches(q) ==
    /\ q.code \in DOMAIN oauthCodes
    /\ q.code_verifier # None
    /\ S256(q.code_verifier) = oauthCodes[q.code].codeChallenge
RedirectOk(q) ==
    q.redirect_uri = None \/ q.redirect_uri = oauthCodes[q.code].redirectUri

\* C1: with the matching verifier, calls of the authorization_code grant
\* made one after the other succeed exactly once: the call that finds the
\* code unused and unexpired returns tokens and leaves the code used, and
\* every call that finds it used fails with invalid_grant.
C1_ExchangeOnce ==
    IsExchange /\ VerifierMatches(out.req) /\ RedirectOk(out.req) =>
        /\ out.req.wasUsed => InvalidGrant
        /\ ~out.req.wasUsed /\ ~out.req.wasExpired =>
              /\ out.status = 200
              /\ out.refresh_token \in DOMAIN oauthRefreshTokens
              /\ out.access_token = createJWT(oauthCodes[out.req.code].userId,
                                              out.access_token.exp - JwtTTL)
              /\ oauthCodes[out.req.code].used

\* a second call with the same code and the right verifier was refused
C1_Witness ==
    /\ IsExchange /\ VerifierMatches(out.req) /\ RedirectOk(out.req)
    /\ out.req.wasUsed /\ InvalidGrant
    /\ Cardinality(DOMAIN oauthRefreshTokens) = 1

\* the refresh tokens the authorization_code grant issued to a user
IssuedTo(u) ==
    {t \in DOMAIN oauthRefreshTokens :
        oauthRefreshTokens[t].userId = u /\ oauthRefreshTokens[t].previousToken = NoToken}
CodesOf(u) == {c \in DOMAIN oauthCodes : oauthCodes[c].userId = u}

\* C2: however requests presenting the same code overlap, at most one of
\* them receives tokens: no user holds more issued tokens than codes.
C2_OneWinner ==
    \A u \in UserIds : Cardinality(IssuedTo(u)) <= Cardinality(CodesOf(u))

\* C3: once a refresh presenting T1 has returned T2, every later refresh
\* presenting T1 fails with invalid_grant.
C3_RotatedTokenRejected ==
    IsRefresh /\ out.req.wasRotated => InvalidGrant

\* a rotated-out token was presented again, and no logout was ever requested
C3_Witness ==
    /\ IsRefresh /\ out.req.wasRotated /\ InvalidGrant
    /\ lastLogout = NoLogout

\* the successors minted from a presented token
Successors(tok) ==
    {t \in DOMAIN oauthRefreshTokens : oauthRefreshTokens[t].previousToken = tok}

\* C4: a token is the input of at most one successful refresh.
C4_OneSuccessor ==
    \A tok \in DOMAIN oauthRefreshTokens : Cardinality(Successors(tok)) <= 1

\* C5: after a logout that ran with no other request in flight, every
\* refresh token its principal held when it began is refused on next use.
C5_LoggedOutTokenRejected ==
    IsRefresh /\ out.req.afterLogout => InvalidGrant

\* an unexpired token of the logged-out principal was presented and refused
C5_Witness ==
    /\ IsRefresh /\ out.req.afterLogout /\ InvalidGrant
    /\ oauthRefreshTokens[out.req.refresh_token].userId = lastLogout.user
    /\ ~(oauthRefreshTokens[out.req.refresh_token].expiresAt < now)

\* token t is in S or descends from a token in S by rotation
RECURSIVE Derived(_, _, _)
Derived(tokens, t, S) ==
    \/ t \in S
    \/ /\ tokens[t].previousToken # NoToken
       /\ Derived(tokens, tokens[t].previousToken, S)

\* C6: when a logout overlapped a refresh of the same principal and both
\* have returned, no unrevoked token of the principal descends from a token
\* issued before the logout began.
C6_NoEscape ==
    lastLogout.done /\ ~lastLogout.alone /\ Quiet =>
        \A t \in TokensOf(oauthRefreshTokens, lastLogout.user) :
            Derived(oauthRefreshTokens, t, lastLogout.pre)
                => oauthRefreshTokens[t].revoked

\* C7: a message with a session identifier that is not in the table is
\* refused as an invalid session: it is not answered 401 and it is never on
\* the way to a new session.
C7_UnknownSessionRefused ==
    /\ out.endpoint = "mcp" /\ out.req.sid # NoSession /\ ~out.req.known =>
          out.status = 400 /\ out.sessionId = NoSession
    /\ \A m \in McpSlots : McpInFlight(m) => mcp[m].sid = NoSession

\* C8: first messages of one connection that were in flight together add
\* one session between them.
C8_OneSessionPerConnection ==
    \A k \in Conns :
        Cardinality({s \in DOMAIN sessions :
                        sessions[s].conn = k /\ sessions[s].overlapped}) <= 1

\* C9: a message without a session identifier whose bearer credential is
\* absent or not valid is answered 401, and the step that answers 401 leaves
\* the session table as it was; no session stems from such a message.
C9_Rejected ==
    /\ out.endpoint = "mcp" /\ out.req.sid = NoSession /\ ~out.req.credValid =>
          out.status = 401 /\ out.sessionId = NoSession
    /\ \A s \in DOMAIN sessions : sessions[s].credValid
C9_NoCredentialNoSession ==
    /\ []C9_Rejected
    /\ [][out'.endpoint = "mcp" /\ out'.status = 401 => sessions' = sessions]_vars

\* a bearer that passes the signature check but names no stored user was
\* answered 401 while a session existed
C9_Witness ==
    /\ out.endpoint = "mcp" /\ out.req.sid = NoSession /\ out.status = 401
    /\ out.req.header = Bearer(createJWT("u3", 0))
    /\ "u3" \notin users
    /\ sessions # <<>>

\* C10: an exchange that finds the code expired fails with invalid_grant
\* whether or not the verifier matches, and its step writes neither store.
C10_Rejected ==
    IsExchange /\ out.req.code_verifier # None /\ out.req.wasExpired => InvalidGrant
C10_ExpiredCodeRejected ==
    /\ []C10_Rejected
    /\ [][out'.endpoint = "token" /\ out'.req.wasExpired =>
            oauthRefreshTokens' = oauthRefreshTokens /\ oauthCodes' = oauthCodes]_vars

\* an expired, unused code was presented with the matching verifier
C10_Witness ==
    /\ IsExchange /\ out.req.wasExpired /\ ~out.req.wasUsed
    /\ VerifierMatches(out.req) /\ RedirectOk(out.req)
    /\ InvalidGrant

\* response o answers an exchange of a stored S256 code with a verifier
\* whose digest is not the stored challenge
VerifierMismatch(o) ==
    /\ o.endpoint = "token" /\ o.req.grant = "authorization_code"
    /\ o.req.code \in DOMAIN oauthCodes
    /\ oauthCodes[o.req.code].codeChallengeMethod = "S256"
    /\ o.req.code_verifier # None
    /\ S256(o.req.code_verifier) # oauthCodes[o.req.code].codeChallenge

\* C11: an exchange of an S256 code with a verifier whose digest differs
\* from the stored challenge fails with invalid_grant, and the step that
\* answers it creates no refresh token.
C11_Rejected == VerifierMismatch(out) => InvalidGrant
C11_VerifierMismatchRejected ==
    /\ []C11_Rejected
    /\ [][VerifierMismatch(out') => oauthRefreshTokens' = oauthRefreshTokens]_vars

\* the wrong verifier was presented for a code that was neither used nor
\* expired, and nothing else was wrong with the request
C11_Witness ==
    /\ VerifierMismatch(out) /\ InvalidGrant
    /\ ~out.req.wasUsed /\ ~out.req.wasExpired /\ RedirectOk(out.req)
    /\ out.desc = "PKCE code_verifier validation failed"

\* C12: for a code minted from a request with the plain method, the verifier
\* is compared literally: an exchange presenting the stored challenge as
\* verifier, with the code unused and unexpired, returns tokens.
C12_PlainAccepted ==
    /\ IsExchange
    /\ out.req.code \in DOMAIN oauthCodes
    /\ oauthCodes[out.req.code].codeChallengeMethod = "plain"
    /\ out.req.code_verifier = oauthCodes[out.req.code].codeChallenge
    /\ RedirectOk(out.req) /\ ~out.req.wasUsed /\ ~out.req.wasExpired
    => out.status = 200

\* C13: an exchange that passes the parameter check with a redirect_uri
\* other than the stored one fails with invalid_grant; one that omits the
\* redirect_uri and is right otherwise returns tokens.
C13_RedirectChecked ==
    /\ /\ IsExchange /\ out.req.code \in DOMAIN oauthCodes
       /\ out.req.code_verifier # None
       /\ out.req.redirect_uri # None
       /\ out.req.redirect_uri # oauthCodes[out.req.code].redirectUri
       => InvalidGrant
    /\ /\ IsExchange /\ VerifierMatches(out.req)
       /\ out.req.redirect_uri = None
       /\ ~out.req.wasUsed /\ ~out.req.wasExpired
       => out.status = 200

\* another redirect_uri was presented with the right verifier for a code
\* that was neither used nor expired
C13_Witness ==
    /\ IsExchange /\ VerifierMatches(out.req)
    /\ out.req.redirect_uri = "uriB"
    /\ ~out.req.wasUsed /\ ~out.req.wasExpired
    /\ InvalidGrant /\ out.desc = "Redirect URI mismatch"

\* C14: a callback whose state names an entry older than the time to live
\* is answered invalid_request, and is never on the way to a code.
C14_StaleRejected ==
    /\ out.endpoint = "callback" /\ out.req.wasStale =>
          out.status = 400 /\ out.error = "invalid_request"
    /\ \A k \in CbSlots : CbInFlight(k) => ~cb[k].wasStale

\* C15: no two authorization codes are minted from the same stored entry.
C15_ConsumedOnce ==
    \A c \in DOMAIN minted, d \in DOMAIN minted :
        c # d => minted[c].pending.pid # minted[d].pending.pid

\* the step answers a login query i
LoginStep(i) == out'.endpoint = "login" /\ out'.req = i /\ out' # out

\* C16: a login query that lacks state, redirect_uri or code_challenge is
\* answered 400 invalid_request and stores nothing; any other is redirected
\* and stores under its state one entry made of its parameters, with the
\* method S256 when none is given, leaving the other entries alone.
C16_Answer ==
    out.endpoint = "login" =>
        IF out.req.state = None \/ out.req.redirect_uri = None
              \/ out.req.code_challenge = None
        THEN out.status = 400 /\ out.error = "invalid_request"
        ELSE /\ out.status = 302
             /\ out.req.state \in DOMAIN pendingAuthRequests
UnknownState(o) ==
    /\ o.endpoint = "callback"
    /\ o.req.state # None /\ o.req.grant # NoGrant
    /\ ~o.req.known

\* C17: a callback whose state names no stored entry is answered 400
\* invalid_request without a code, is never on the way to a code, and the
\* step that answers it changes neither the codes nor the pending entries.
C17_Rejected ==
    /\ UnknownState(out) =>
          out.status = 400 /\ out.error = "invalid_request" /\ out.code = None
    /\ \A k \in CbSlots : CbInFlight(k) => cb[k].known
C17_UnknownStateRejected ==
    /\ []C17_Rejected
    /\ [][UnknownState(out') /\ out' # out =>
            /\ oauthCodes' = oauthCodes
            /\ pendingAuthRequests' = pendingAuthRequests]_vars

\* a callback named a state nothing was stored under while an entry was
\* stored under another state
C17_Witness ==
    /\ UnknownState(out) /\ out.status = 400
    /\ out.desc = "Unknown or expired state parameter"
    /\ pendingAuthRequests # <<>>

\* C18: a minted code carries the challenge, method, redirect_uri and scope
\* of the entry it was minted from and expires CodeTTL after minting; it is
\* created unused, and no step changes the challenge of a stored code.
C18_Bound ==
    \A c \in DOMAIN minted :
        /\ c \in DOMAIN oauthCodes
        /\ oauthCodes[c].codeChallenge = minted[c].pending.codeChallenge
        /\ oauthCodes[c].codeChallengeMethod = minted[c].pending.codeChallengeMethod
        /\ oauthCodes[c].redirectUri = minted[c].pending.redirectUri
        /\ oauthCodes[c].scope = minted[c].pending.scope
        /\ oauthCodes[c].expiresAt = minted[c].at + CodeTTL
C18_CodeBinding ==
    /\ []C18_Bound
    /\ [][/\ \A c \in DOMAIN oauthCodes :
                /\ c \in DOMAIN oauthCodes'
                /\ oauthCodes'[c].codeChallenge = oauthCodes[c].codeChallenge
          /\ \A c \in DOMAIN oauthCodes' \ DOMAIN oauthCodes :
                ~oauthCodes'[c].used]_vars

\* a code minted from an entry with a scope of its own has been exchanged
C18_Witness ==
    \E c \in DOMAIN minted :
        /\ minted[c].pending.scope = "briefings:read"
        /\ oauthCodes[c].used
        /\ oauthRefreshTokens # <<>>

\* C19: the user of every minted code has a user document.
C19_PrincipalExists ==
    \A c \in DOMAIN oauthCodes : oauthCodes[c].userId \in users

\* C20: a bearer that passes the signature and expiry check of the access
\* tokens but names no stored user is refused as 'User not found'.
C20_UserNotFound ==
    /\ out.endpoint = "logout"
    /\ HasBearer(out.req.header)
    /\ JwtVerify(out.req.header.token, now)
    /\ out.req.header.token.sub \notin users
    => out.status = 401 /\ out.desc = "User not found"

(* C21: whatever bearer string is presented and whatever makes it fail       *)
(* (no token at all, an expired token, a token whose user document is gone,  *)
(* an expired ID token), the verifier fails with the one message 'Invalid    *)
(* authentication token': requireAuth answers 401 with it, and               *)
(* authenticateToken throws it.                                              *)
C21_OneFailureMessage ==
    /\ (out.endpoint = "logout" /\ out.status # 200 /\ HasBearer(out.req.header))
            => out.status = 401 /\ out.desc = "Invalid authentication token"
    /\ (out.endpoint = "mcp" /\ out.status = 401 /\ HasBearer(out.req.header))
            => out.req.verdict = "Invalid authentication token"

\* an access token with a good signature whose user document is gone has
\* been refused by requireAuth
C21_Witness ==
    /\ out.endpoint = "logout"
    /\ out.status = 401
    /\ out.req.header = Bearer(createJWT("u3", 0))
    /\ out.desc = "Invalid authentication token"
\* the body of an error response of the token endpoint:
\* res.status(status).json({ error, error_description })
ErrorBody(o) == <<o.status, o.error, o.desc>>

(* C22: the token endpoint answers every rejected grant with the same body:  *)
(* two rejections in the invalid_grant category, whatever their causes       *)
(* (reuse, PKCE mismatch, expiry, redirect mismatch, a revoked or expired    *)
(* refresh token), cannot be told apart by the caller.                       *)
C22_SameBody ==
    [][(out.endpoint = "token" /\ InvalidGrant /\ out'.endpoint = "token" /\ InvalidGrant')
          => ErrorBody(out') = ErrorBody(out)]_vars
(* C23: every error response of the authorization, callback and token        *)
(* endpoints is a JSON object with the fields error and error_description,   *)
(* also when a store call fails inside the handler.                          *)
C23_StructuredErrors ==
    (out.endpoint \in {"login", "callback", "token"} /\ out.status >= 400)
        => {"error", "error_description"} \subseteq out.fields
(* C24: DELETE for a known session removes it from the table, and a removed  *)
(* identifier stays removed: GET and DELETE carrying it are answered 400, a  *)
(* POST carrying it is not handled by a session of that identifier, and the  *)
(* identifier never maps to a session again.                                 *)
C24_Gone ==
    /\ (out.endpoint = "mcp_delete" /\ out.status = 200)
            => out.req.known /\ Removed(out.req.sid)
    /\ (out.endpoint \in {"mcp_get", "mcp_delete"} /\ out.req.removed)
            => out.status = 400
    /\ (out.endpoint = "mcp" /\ out.req.removed)
            => ~out.req.known /\ out.sessionId # out.req.sid
C24_RemovalTerminal ==
    /\ []C24_Gone
    /\ [][\A sid \in SessionIds : Removed(sid) => Removed(sid)']_vars

\* a session was created and deleted, and a second DELETE with its
\* identifier has been refused
C24_Witness ==
    /\ out.endpoint = "mcp_delete"
    /\ out.status = 400
    /\ out.req.removed
(* C25: GET and DELETE with a session identifier that is missing or not in   *)
(* the table are answered 400 and leave the table as it was; no GET and no   *)
(* DELETE adds a session to the table.                                       *)
C25_Refused ==
    (out.endpoint \in {"mcp_get", "mcp_delete"}
        /\ (out.req.sid = NoSession \/ ~out.req.known))
        => out.status = 400 /\ out.error = -32000
C25_UnknownSessionNoEffect ==
    /\ []C25_Refused
    /\ [][out'.endpoint \in {"mcp_get", "mcp_delete"}
            => /\ DOMAIN sessions' \subseteq DOMAIN sessions
               /\ nextSid' = nextSid
               /\ out'.status = 400 => sessions' = sessions]_vars

\* while a session exists, a GET with another identifier has been refused
C25_Witness ==
    /\ out.endpoint = "mcp_get"
    /\ out.status = 400
    /\ out.req.sid # NoSession
    /\ sessions # <<>>
(* C26: once shutdown has begun the session table is empty and stays empty   *)
(* until the process exits: no session is added, not even by a first message *)
(* whose credential was being verified when the signal arrived.              *)
C26_EmptyAfterShutdown == proc.shuttingDown => sessions = <<>>
(* C27: in stdio mode every tool invocation runs as the one user built from  *)
(* the process environment at start-up; no credential is verified, the       *)
(* session table stays empty and no listener is started.                     *)
C27_StdioMode ==
    /\ proc.mode = "stdio" =>
          /\ ~proc.listening
          /\ sessions = <<>> /\ nextSid = 0
          /\ \A m \in McpSlots : mcp[m].pc = "idle"
          /\ \A r \in Slots : req[r].pc = "idle"
          /\ out.endpoint \in {None, "stdio"}
          /\ users = UserIds
    /\ out.endpoint = "stdio" =>
          /\ out.req.user = proc.localUser
          /\ out.req.user.id =
                IF proc.env.STDIO_USER_ID = None THEN "local-user"
                ELSE proc.env.STDIO_USER_ID

\* a process started with --stdio and STDIO_USER_ID=u7 has run a tool
C27_Witness ==
    /\ proc.mode = "stdio"
    /\ out.endpoint = "stdio"
    /\ out.req.user.id = "u7"
(* C28: a run of the cleanup deletes exactly the pending requests created    *)
(* more than fifteen minutes before it started and leaves every other entry  *)
(* as it was, an entry stored at the instant of the sweep included; on an    *)
(* empty table it does nothing.                                              *)
C28_SweepExact ==
    [][lastSweep' # lastSweep =>
        /\ DOMAIN pendingAuthRequests' =
              {x \in DOMAIN pendingAuthRequests :
                  pendingAuthRequests[x].createdAt + PendingTTL >= now}
        /\ \A x \in DOMAIN pendingAuthRequests' :
              pendingAuthRequests'[x] = pendingAuthRequests[x]
        /\ pendingAuthRequests = <<>> => pendingAuthRequests' = <<>>]_vars

\* the cleanup has just deleted an entry and kept another
C28_Witness ==
    /\ lastSweep = now
    /\ proc.swept # {}
    /\ \E x \in DOMAIN pendingAuthRequests : pendingAuthRequests[x].createdAt < now
\* the token endpoint has answered a PKCE failure
PkceFailure(o) ==
    o.endpoint = "token" /\ o.desc = "PKCE code_verifier validation failed"

(* C29: the comparison of the computed challenge with the stored challenge   *)
(* is constant-time: two PKCE failures against the same stored challenge     *)
(* examine the same number of positions, however long a prefix the computed  *)
(* challenge shares with the stored one.                                     *)
C29_ConstantTime ==
    [][(PkceFailure(out) /\ PkceFailure(out') /\ out'.req.code = out.req.code)
          => out'.compared = out.compared]_vars
\* the token issued by a code exchange that the chain of t starts from
RECURSIVE ChainRoot(_, _)
ChainRoot(tokens, t) ==
    IF tokens[t].previousToken = NoToken THEN t
    ELSE ChainRoot(tokens, tokens[t].previousToken)

\* each rotation chain holds at most one unrevoked token, and every token
\* revoked by rotation (in a run without logout every revoked token is) has
\* exactly one successor
ChainInvariant ==
    /\ \A a, b \in DOMAIN oauthRefreshTokens :
          (a # b /\ ~oauthRefreshTokens[a].revoked /\ ~oauthRefreshTokens[b].revoked)
            => ChainRoot(oauthRefreshTokens, a) # ChainRoot(oauthRefreshTokens, b)
    /\ lastLogout = NoLogout =>
          \A t \in DOMAIN oauthRefreshTokens :
              oauthRefreshTokens[t].revoked => Cardinality(Successors(t)) = 1

(* C30: each rotation chain of refresh tokens holds at most one unrevoked    *)
(* token and every token revoked by rotation has exactly one successor.  The *)
(* claim is about every state; it is stated here for the states in which     *)
(* every request has been answered, where it fails as well.                  *)
C30_ChainInvariant == Quiet => ChainInvariant
(* C31: the used flag of an authorization code and the revoked flag of a     *)
(* refresh token never go from true back to false: a document that carries   *)
(* the flag keeps it through every step.                                     *)
C31_FlagsMonotonic ==
    [][/\ \A c \in DOMAIN oauthCodes : oauthCodes[c].used =>
              c \in DOMAIN oauthCodes' /\ oauthCodes'[c].used
       /\ \A t \in DOMAIN oauthRefreshTokens : oauthRefreshTokens[t].revoked =>
              t \in DOMAIN oauthRefreshTokens' /\ oauthRefreshTokens'[t].revoked]_vars

\* a code was exchanged, its token rotated, and the rotated token's
\* successor issued: the code is used and the first token revoked
C31_Witness ==
    /\ \E c \in DOMAIN oauthCodes : oauthCodes[c].used
    /\ \E t \in DOMAIN oauthRefreshTokens :
          oauthRefreshTokens[t].revoked /\ Successors(t) # {}
    /\ out.endpoint = "token" /\ out.status = 200
(* C32: every session in the table was inserted after authenticateToken      *)
(* succeeded, no two sessions share a transport, and a session's user and    *)
(* transport never change; a message carrying a known session identifier is *)
(* handled by that session's transport as that session's user, whatever      *)
(* authorization header it carries, and no credential is verified for it.    *)
C32_Routed ==
    /\ \A s \in DOMAIN sessions : sessions[s].credValid /\ sessions[s].user \in users
    /\ \A a, b \in DOMAIN sessions :
          a # b => sessions[a].transport # sessions[b].transport
    /\ (out.endpoint = "mcp" /\ out.req.known) =>
          /\ out.status = 200
          /\ out.sessionId = out.req.sid
          /\ out.req.verdict = None
    /\ \A m \in McpSlots : McpInFlight(m) => ~mcp[m].known
C32_SessionBinding ==
    /\ []C32_Routed
    /\ [][/\ \A s \in DOMAIN sessions \cap DOMAIN sessions' :
                sessions'[s].user = sessions[s].user
                  /\ sessions'[s].transport = sessions[s].transport
           /\ (out'.endpoint = "mcp" /\ out'.req.known) =>
                /\ out'.req.sid \in DOMAIN sessions
                /\ out'.req.user = sessions[out'.req.sid].user
                /\ users' = users]_vars

\* the session of u1 has handled a message that carried the ID token of
\* another user
C32_Witness ==
    /\ out.endpoint = "mcp"
    /\ out.req.known
    /\ out.status = 200
    /\ out.req.user = "u1"
    /\ out.req.header = Bearer(FirebaseToken("u3", JwtTTL))
\* the user, scope and client of a refresh token
Grant(doc) == <<doc.userId, doc.scope, doc.clientId>>

C34_LogoutFrame ==
    [][(out'.endpoint = "logout" /\ out'.status = 200) =>
        /\ DOMAIN oauthRefreshTokens' = DOMAIN oauthRefreshTokens
        /\ \A t \in DOMAIN oauthRefreshTokens :
              oauthRefreshTokens'[t] =
                IF /\ oauthRefreshTokens[t].userId = out'.req.user
                   /\ ~oauthRefreshTokens[t].revoked
                THEN [oauthRefreshTokens[t] EXCEPT !.revoked = TRUE]
                ELSE oauthRefreshTokens[t]
        /\ out'.revoked_tokens =
              Cardinality({t \in DOMAIN oauthRefreshTokens :
                              /\ oauthRefreshTokens[t].userId = out'.req.user
                              /\ ~oauthRefreshTokens[t].revoked})]_vars

\* a logout revoked one token of its principal while an earlier token of the
\* same principal had already been revoked by rotation
C34_Witness ==
    /\ out.endpoint = "logout" /\ out.status = 200
    /\ out.revoked_tokens = 1
    /\ \E t, s \in DOMAIN oauthRefreshTokens :
          /\ t # s
          /\ oauthRefreshTokens[t].userId = out.req.user
          /\ oauthRefreshTokens[s].userId = out.req.user
          /\ oauthRefreshTokens[s].previousToken = t

\* the token is unknown, revoked, or past its expiry at time t
BadToken(tokens, tok, t) ==
    \/ tok \notin DOMAIN tokens
    \/ tokens[tok].revoked
    \/ tokens[tok].expiresAt < t

\* C35: a refresh_token grant that presents an unknown, a revoked or an
\* expired token is answered invalid_grant without a token and leaves the
\* refresh token store as it was; it never goes on to rotate.
C35_BadTokenRefused ==
    [][/\ \A r \in Slots :
            (~InFlight(r) /\ req'[r].pc = "update_token") =>
                ~BadToken(oauthRefreshTokens, req'[r].refresh_token, now)
       /\ (/\ req' = req
           /\ out'.endpoint = "token" /\ out'.req.grant = "refresh_token"
           /\ out'.req.refresh_token # NoToken
           /\ BadToken(oauthRefreshTokens, out'.req.refresh_token, now)) =>
                /\ out'.status = 400 /\ out'.error = "invalid_grant"
                /\ out'.refresh_token = NoToken /\ out'.access_token = Garbage
                /\ oauthRefreshTokens' = oauthRefreshTokens]_vars

\* a token that was never revoked is presented after its thirty days and is
\* refused as expired
C35_Witness ==
    /\ IsRefresh /\ InvalidGrant
    /\ out.desc = "Refresh token has expired"
    /\ out.req.refresh_token \in DOMAIN oauthRefreshTokens
    /\ ~oauthRefreshTokens[out.req.refresh_token].revoked
    /\ oauthRefreshTokens[out.req.refresh_token].expiresAt < now

\* the token endpoint answered one of its three OAuth errors
TokenError ==
    /\ out.endpoint = "token"
    /\ out.error \in {"invalid_request", "invalid_grant", "unsupported_grant_type"}

\* the exchange was refused because redirect_uri or the verifier did not match
MismatchRefused ==
    /\ IsExchange /\ InvalidGrant
    /\ out.desc \in {"Redirect URI mismatch", "PKCE code_verifier validation failed"}

\* C36: a token request answered invalid_request, invalid_grant or
\* unsupported_grant_type leaves the authorization codes and the refresh
\* tokens as they were; after an exchange refused for a redirect or PKCE
\* mismatch the code is still unused and unexpired, and the same code with
\* the right verifier and redirect_uri passes the checks.
C36_ErrorsWriteNothing ==
    /\ [](MismatchRefused =>
            /\ ~oauthCodes[out.req.code].used
            /\ ~(oauthCodes[out.req.code].expiresAt < now)
            /\ \E i \in ExchangeInputs :
                  /\ i.code = out.req.code
                  /\ CodeGrantError(oauthCodes, i.code, i.code_verifier,
                                    i.redirect_uri, now) = "ok")
    /\ [][TokenError' => /\ oauthCodes' = oauthCodes
                         /\ oauthRefreshTokens' = oauthRefreshTokens]_vars

\* an exchange was refused for the wrong verifier while the code is unused
C36_Witness ==
    /\ MismatchRefused
    /\ out.desc = "PKCE code_verifier validation failed"
    /\ out.req.code_verifier # None
    /\ ~oauthCodes[out.req.code].used

\* a step of the logout handler
LogoutStep ==
    \/ out'.endpoint = "logout"
    \/ \E r \in Slots : /\ req'[r] # req[r]
                         /\ "logout" \in {req[r].grant, req'[r].grant}

\* the two stores hold the same documents up to their revoked flags
SameButRevoked(old, new) ==
    /\ DOMAIN new = DOMAIN old
    /\ \A t \in DOMAIN old : [new[t] EXCEPT !.revoked = old[t].revoked] = old[t]

\* a POST /mcp was answered after the last logout finished
AfterLogout == out.endpoint = "mcp" /\ lastLogout.done

\* C37: logout changes nothing but revoked flags of refresh tokens: the
\* session table, the authorization codes and the pending authorizations are
\* as before; afterwards a session bound to the logged-out principal still
\* has its messages routed, and an unexpired access token of that principal
\* is still accepted.
C37_LogoutTouchesTokensOnly ==
    /\ []((AfterLogout /\ out.req.known /\ out.req.user = lastLogout.user) =>
            out.status = 200 /\ out.sessionId = out.req.sid)
    /\ []((AfterLogout /\ ~out.req.known /\ now < JwtTTL
              /\ out.req.header = Bearer(createJWT(lastLogout.user, 0))) =>
            out.status = 200 /\ out.req.user = lastLogout.user)
    /\ [][LogoutStep =>
            /\ sessions' = sessions
            /\ oauthCodes' = oauthCodes
            /\ pendingAuthRequests' = pendingAuthRequests
            /\ SameButRevoked(oauthRefreshTokens, oauthRefreshTokens')]_vars

\* a principal with a session, a pending authorization and a refresh token
\* logged out, the token was revoked, and the next message on the session
\* was routed
C37_Witness ==
    /\ AfterLogout /\ out.req.known /\ out.req.user = lastLogout.user
    /\ out.status = 200
    /\ pendingAuthRequests # <<>>
    /\ \E t \in lastLogout.pre : oauthRefreshTokens[t].revoked

\* a principal logged out with a revoked token and then opened a new session
\* with the access token issued before
C37_WitnessToken ==
    /\ AfterLogout /\ ~out.req.known /\ out.status = 200
    /\ out.req.user = lastLogout.user
    /\ \E t \in lastLogout.pre : oauthRefreshTokens[t].revoked

\* the token endpoint answered 500 for a request that had reached step pc
FailedAt(pc) == out.endpoint = "token" /\ out.status = 500 /\ out.req.pc = pc

\* C38: when the write of the new refresh token fails after the code was
\* marked used, or after the presented token was marked revoked, the request
\* ends in an error and nothing is undone: the code stays used with no token
\* issued for it, the old token stays revoked with no successor.
C38_NoRollback ==
    /\ [](FailedAt("set_issued") =>
            /\ oauthCodes[out.req.code].used
            /\ Cardinality(IssuedTo(out.req.data.userId)) <
                  Cardinality({c \in CodesOf(out.req.data.userId) : oauthCodes[c].used}))
    /\ [](FailedAt("set_rotated") =>
            /\ oauthRefreshTokens[out.req.refresh_token].revoked
            /\ Successors(out.req.refresh_token) = {})
    /\ [][(out'.endpoint = "token" /\ out'.status = 500) =>
            /\ oauthCodes' = oauthCodes
            /\ oauthRefreshTokens' = oauthRefreshTokens]_vars

\* the write of the rotated token failed: the presented token is revoked and
\* the principal is left without an unrevoked token
C38_Witness ==
    /\ FailedAt("set_rotated")
    /\ oauthRefreshTokens[out.req.refresh_token].revoked
    /\ ActiveTokens(oauthRefreshTokens, out.req.data.userId) = {}

\* what a stored entry holds, without its history field
Stored(p) == [p EXCEPT !.pid = 0]

\* C39: the pending cache holds one entry per state; a login with a state
\* that is already pending puts its own entry in the place of the earlier
\* one, and a code minted by a callback carries the entry that is stored
\* under its state when it is minted, the most recent login with that state.
C39_BoundToLatest ==
    [][/\ \A i \in LoginInputs :
            (LoginStep(i) /\ out'.status = 302) =>
                /\ DOMAIN pendingAuthRequests' = DOMAIN pendingAuthRequests \cup {i.state}
                /\ pendingAuthRequests'[i.state].codeChallenge = i.code_challenge
                /\ pendingAuthRequests'[i.state].redirectUri = i.redirect_uri
                /\ pendingAuthRequests'[i.state].createdAt = now
       /\ \A c \in DOMAIN minted' \ DOMAIN minted :
            minted'[c].state \in DOMAIN pendingAuthRequests =>
                Stored(minted'[c].pending) =
                    Stored(pendingAuthRequests[minted'[c].state])]_vars

\* C40: a free user never has more briefings that are not archived than
\* FREE_TIER_LIMITS.maxBriefings, however the create_briefing calls overlap.
C40_FreeTierLimit ==
    \A u \in UserIds :
        TierOf(u) = "free" =>
            Cardinality(ExistingBriefings(userBriefings, u))
                <= FREE_TIER_LIMITS.maxBriefings

====
